---- MODULE Spec2Model ----
(***************************************************************************)
(* A model of the llm-axe extraction pipeline:                             *)
(*   - read_link (va2_response_template.py): HTML / PDF retrieval with     *)
(*     retries, backoff and PDF staging in a temporary file;               *)
(*   - sanitize_and_validate and its helpers (va2_response_template.py);   *)
(*   - extract_json of va2_response_template.py and of                     *)
(*     va3_scraper_to_template.py, the interactive loop of va2 and the     *)
(*     save_result call of va3;                                            *)
(*   - run_with_warning (va1_url_selector.py): the worker thread, the       *)
(*     heartbeat thread and print_lock, within one turn of main.           *)
(*   - the chat loops of va1_url_selector.py, online_agent.py and            *)
(*     test_online_agent.py, turn by turn, with the conversation history;  *)
(*   - _to_iso_dates_in_text applied to a text and to its own output, and   *)
(*     load_response_template on an override file.                         *)
(* Python strings are sequences of one-character strings; Python values    *)
(* are records tagged by their type.                                       *)
(***************************************************************************)
EXTENDS Integers, Sequences, FiniteSets, TLC

VARIABLES
    \* ---- read_link (one call at a time)
    url,          \* the url argument
    max_retries,  \* the max_retries argument
    rlPc,         \* position of the call: idle, html, pdf, pdf_staged, returned, raised
    attempt,      \* local variable attempt
    last_err,     \* local variable last_err (None or an error)
    events,       \* history of the call: one entry per extraction attempt / sleep
    tmpFiles,     \* staged temporary files that exist on disk
    tmpMade,      \* number of temporary files created by the call so far
    removeFailed, \* whether some os.remove of the call has failed
    rlResult,     \* the text returned, or the error raised, by the call
    \* ---- sanitize_and_validate (calls on one page text)
    result_obj,   \* the candidate object of the call
    template_obj, \* the schema object of the call
    page_text,    \* the page text of the call
    clean,        \* the record the call returned
    sanPc,        \* ready (inputs chosen), done (first call made), second (another made),
                  \* again (another made, on the record the first returned)
    prev_clean,   \* the record the previous call on this page text returned
    prev_obj,     \* the candidate object of the previous call
    \* ---- the parsing step of extract_json (one reply)
    reply,        \* the reply of the model
    inner,        \* the object inside the array the reply holds, None when it holds none
    parsePc,      \* reply (the reply is there), va3 / va2 (that extract_json has read
                  \* it), va3_saved (save_result of va3 has run)
    parseOut,     \* what the step returned or raised
    parseSaved,   \* the raw replies the step saved
    parseResult,  \* the lists save_result of va3 has written
    \* ---- interactive_loop of va2
    loopPc,       \* input, url, fetched, asked, exited, crashed
    console,      \* the encoding of sys.stdout
    turn,         \* the number of input lines read
    loopUrl,      \* url
    content,      \* the page text read_link returned
    raw,          \* the reply of the model
    rawFiles,     \* the raw-output files in ./outputs
    resultFiles,  \* the extracted-result files in ./outputs
    history,      \* the urls processed so far, with the reply and what came of it
    \* ---- main and run_with_warning of va1
    mainPc,       \* position of the main thread
    mainIn,       \* whether the main thread is inside print (or the prompt of input)
    user_input,   \* user_input
    response,     \* response
    print_lock,   \* the threads that hold print_lock (none or one)
    writers,      \* the threads that are inside print
    calls,        \* the calls of run_with_warning made so far, with their two threads
    \* ---- calls of _to_iso_dates_in_text and of load_response_template
    helperPc,     \* date (a text is there), once / twice (normalised that many times);
                  \* file (an override file is there), loaded
    helperIn,     \* the argument: a text, or the file at the path
    helperOut,    \* what the calls made so far returned, in order
    \* ---- the chat loops: main of va1, of online_agent and of test_online_agent
    chatProg,     \* the program that runs
    chatPc,       \* input, search, ask, append_user, append_assistant, print, exited,
                  \* crashed
    chatTurn,     \* the number of input lines read
    chatInput,    \* user_input
    chatResponse, \* response
    chatHistory   \* history

fetchVars == <<url, max_retries, rlPc, attempt, last_err, events, tmpFiles,
               tmpMade, removeFailed, rlResult>>

sanVars == <<result_obj, template_obj, page_text, clean, sanPc, prev_clean, prev_obj>>

parseVars == <<reply, inner, parsePc, parseOut, parseSaved, parseResult>>

loopVars == <<loopPc, console, turn, loopUrl, content, raw, rawFiles, resultFiles, history>>

monVars == <<mainPc, mainIn, user_input, response, print_lock, writers, calls>>

helperVars == <<helperPc, helperIn, helperOut>>

chatVars == <<chatProg, chatPc, chatTurn, chatInput, chatResponse, chatHistory>>

vars == <<fetchVars, sanVars, parseVars, loopVars, monVars, helperVars, chatVars>>

\* Python values: None, str, and (for JSON) bool, number, list, dict
PyNone == [t |-> "null"]
Str(s) == [t |-> "str", s |-> s]

\* ------------------------------------------------------------------ bounds

\* (?:\d[\s-]?){7,15}
PhoneMinReps == 7
PhoneMaxReps == 15

\* number of keys outside the schema a candidate object may carry
MaxExtraKeys == 1

\* largest max_retries a call is given (the default is 2)
MaxRetriesBound == 2

\* input lines read by interactive_loop
MaxTurns == 2

\* pieces a text given to _to_iso_dates_in_text is made of
MaxDatePieces == 5

\* input lines read by a chat loop
MaxChatTurns == 3

\* grace periods (warning_after) of 0..MaxWarningAfter ticks
MaxWarningAfter == 1

\* status intervals (status_interval) of 1..MaxStatusInterval ticks
MaxStatusInterval == 2

\* ------------------------------------------------------------- characters

\* One-character strings. The backtick, the apostrophe and the non-ASCII
\* characters the model needs are named:
\* Euro is U+20AC, ACirc is U+00E2 (the first character of the bytes of U+20AC read
\* as cp1252, which is what the character class of MONEY_TOKEN_RE holds in the source).
Euro == "<U+20AC>"
ACirc == "<U+00E2>"
Backtick == "<U+0060>"
Apostrophe == "<U+0027>"

LowerLetters == <<"a", "b", "c", "d", "e", "f", "g", "h", "i", "j", "k", "l", "m",
                  "n", "o", "p", "q", "r", "s", "t", "u", "v", "w", "x", "y", "z">>
UpperLetters == <<"A", "B", "C", "D", "E", "F", "G", "H", "I", "J", "K", "L", "M",
                  "N", "O", "P", "Q", "R", "S", "T", "U", "V", "W", "X", "Y", "Z">>
DigitChars == <<"0", "1", "2", "3", "4", "5", "6", "7", "8", "9">>

\* the characters of the model in code point order
CodeOrder ==
    <<"\t", "\n", " ", "!", "\"", "#", "$", "%", "&", Apostrophe, "(", ")", "*", "+", ",", "-", ".", "/">>
    \o DigitChars \o <<":", ";", "<", "=", ">", "?", "@">>
    \o UpperLetters \o <<"[", "\\", "]", "^", "_", Backtick>>
    \o LowerLetters \o <<"{", "|", "}", "~", "<U+00AC>", ACirc, "<U+201A>", Euro>>

Range(f) == {f[i] : i \in DOMAIN f}

Whitespace == {" ", "\n", "\t"}
Digits == Range(DigitChars)
AsciiLetters == Range(LowerLetters) \cup Range(UpperLetters)
\* \w of a str pattern
WordChars == AsciiLetters \cup Digits \cup {"_", ACirc}

\* a local variable of the source: e is evaluated once, and Body sees its value
Local(e, Body(_)) == CHOOSE r \in {Body(x) : x \in {e}} : TRUE

\* min(S) of a set of integers that is not empty
Min(S) == CHOOSE x \in S : \A y \in S : x <= y

\* str.lower(), one character
LowerChar(c) ==
    IF c \in Range(UpperLetters)
    THEN LowerLetters[CHOOSE i \in DOMAIN UpperLetters : UpperLetters[i] = c]
    ELSE c

\* str.lower()
lower(s) == [i \in 1..Len(s) |-> LowerChar(s[i])]

\* s[i:j] of Python with 0 <= i <= j <= len(s), on 1-based positions i+1..j
Slice(s, i, j) == [k \in 1..(j - i) |-> s[i + k]]

\* sub occurs in s at 0-based offset i
OccursAt(s, sub, i) ==
    /\ i >= 0
    /\ i + Len(sub) <= Len(s)
    /\ \A k \in 1..Len(sub) : s[i + k] = sub[k]

\* the Python operator `sub in s`
contains(s, sub) == \E i \in 0..Len(s) : OccursAt(s, sub, i)

\* str.endswith
endswith(s, suf) == OccursAt(s, suf, Len(s) - Len(suf))

\* str.startswith
startswith(s, pre) == OccursAt(s, pre, 0)

\* str.strip(): leading and trailing whitespace removed
strip(s) ==
    LET keep == {i \in 1..Len(s) : s[i] \notin Whitespace}
    IN  IF keep = {} THEN <<>>
        ELSE LET lo == CHOOSE i \in keep : \A j \in keep : i <= j
                 hi == CHOOSE i \in keep : \A j \in keep : j <= i
             IN  Slice(s, lo - 1, hi)

\* the last position of the run of characters of class C that starts at position i
\* (i - 1 when s[i] is not in C)
RunEnd(s, i, C) ==
    LET stop == {k \in i..Len(s) : s[k] \notin C}
    IN  IF stop = {} THEN Len(s)
        ELSE (CHOOSE k \in stop : \A j \in stop : k <= j) - 1

\* a < b for Python strings: code point order, a proper prefix first
StrLess(a, b) ==
    LET Ord(c) == CHOOSE i \in DOMAIN CodeOrder : CodeOrder[i] = c
    IN  \E k \in 1..(Len(b)) :
        /\ k <= Len(a) + 1
        /\ \A j \in 1..(k - 1) : a[j] = b[j]
        /\ \/ k = Len(a) + 1
           \/ (k <= Len(a) /\ Ord(a[k]) < Ord(b[k]))

\* the strings of S from the greatest down
RECURSIVE sorted_descending(_)
sorted_descending(S) ==
    IF S = {} THEN <<>>
    ELSE LET x == CHOOSE x \in S : \A y \in S \ {x} : StrLess(y, x)
         IN  <<x>> \o sorted_descending(S \ {x})

\* sorted(S) for a set S of strings
RECURSIVE sorted(_)
sorted(S) ==
    Local(S, LAMBDA rest :
        IF rest = {} THEN <<>>
        ELSE Local(CHOOSE x \in rest : \A y \in rest \ {x} : StrLess(x, y),
                   LAMBDA least : <<least>> \o sorted(rest \ {least})))

\* sep.join(parts)
RECURSIVE join(_, _)
join(sep, parts) ==
    IF parts = <<>> THEN <<>>
    ELSE IF Len(parts) = 1 THEN parts[1]
    ELSE parts[1] \o sep \o join(sep, Tail(parts))

\* s.split(c) for a one-character separator c
RECURSIVE split(_, _)
split(s, c) ==
    LET at == {i \in 1..Len(s) : s[i] = c}
    IN  IF at = {} THEN <<s>>
        ELSE LET i == CHOOSE k \in at : \A j \in at : k <= j
             IN  <<Slice(s, 0, i - 1)>> \o split(Slice(s, i, Len(s)), c)

\* s.find(sub): the 0-based offset of the first occurrence, else -1
find(s, sub) ==
    LET at == {i \in 0..Len(s) : OccursAt(s, sub, i)}
    IN  IF at = {} THEN -1 ELSE CHOOSE i \in at : \A j \in at : i <= j

\* s.rfind(sub): the 0-based offset of the last occurrence, else -1
rfind(s, sub) ==
    LET at == {i \in 0..Len(s) : OccursAt(s, sub, i)}
    IN  IF at = {} THEN -1 ELSE CHOOSE i \in at : \A j \in at : j <= i

\* s.replace(old, new, 1): the first occurrence only
replace_first(s, old, new) ==
    LET i == find(s, old)
    IN  IF i = -1 THEN s
        ELSE Slice(s, 0, i) \o new \o Slice(s, i + Len(old), Len(s))

\* s.strip(chars) for a set of characters
strip_chars(s, C) ==
    LET keep == {i \in 1..Len(s) : s[i] \notin C}
    IN  IF keep = {} THEN <<>>
        ELSE LET lo == CHOOSE i \in keep : \A j \in keep : i <= j
                 hi == CHOOSE i \in keep : \A j \in keep : j <= i
             IN  Slice(s, lo - 1, hi)

\* --------------------------------------------------- the compiled patterns

\* EMAIL_RE = [A-Za-z0-9._%+-]+@[A-Za-z0-9.-]+\.[A-Za-z]{2,}

\* The position where the match of EMAIL_RE that starts at position i ends, 0 when
\* there is none. The local part is the whole run before "@" ("@" is not in its
\* class); the greedy domain gives up characters until a "." followed by two
\* letters is found, so the last such "." of the domain run is taken.
EmailMatchEnd(s, i) ==
    LET EmailLocal == AsciiLetters \cup Digits \cup {".", "_", "%", "+", "-"}
        EmailDomain == AsciiLetters \cup Digits \cup {".", "-"}
        j == RunEnd(s, i, EmailLocal)
    IN  IF j < i \/ j + 1 > Len(s) THEN 0
        ELSE IF s[j + 1] # "@" THEN 0
        ELSE LET k == RunEnd(s, j + 2, EmailDomain)
                 dots == {p \in (j + 3)..k :
                             /\ s[p] = "."
                             /\ RunEnd(s, p + 1, AsciiLetters) >= p + 2}
             IN  IF dots = {} THEN 0
                 ELSE RunEnd(s, (CHOOSE p \in dots : \A q \in dots : q <= p) + 1,
                             AsciiLetters)

\* URL_RE = https?://[^\s\)]+
UrlMatchEnd(s, i) ==
    LET http == <<"h", "t", "t", "p">>
        sep == <<":", "/", "/">>
        stop(j) == {k \in j..Len(s) : s[k] \in Whitespace \cup {")"}}
        body(j) == IF j > Len(s) \/ j \in stop(j) THEN 0
                   ELSE IF stop(j) = {} THEN Len(s)
                   ELSE Min(stop(j)) - 1
    IN  IF ~OccursAt(s, http, i - 1) THEN 0
        ELSE IF OccursAt(s, <<"s">> \o sep, i + 3) THEN body(i + 8)
        ELSE IF OccursAt(s, sep, i + 3) THEN body(i + 7)
        ELSE 0

\* (?:\d[\s-]?){7,15} from position j: the greedy repetition takes a digit and the
\* separator after it, at most 15 times; 0 when fewer than 7 repetitions fit.
RECURSIVE PhoneRunEnd(_, _, _)
PhoneRunEnd(s, j, n) ==
    IF n < PhoneMaxReps /\ j <= Len(s) /\ s[j] \in Digits
    THEN IF j + 1 <= Len(s) /\ s[j + 1] \in (Whitespace \cup {"-"})
         THEN PhoneRunEnd(s, j + 2, n + 1)
         ELSE PhoneRunEnd(s, j + 1, n + 1)
    ELSE IF n >= PhoneMinReps THEN j - 1 ELSE 0

\* PHONE_RE = (?:\+\d{1,3}\s?)?(?:\d[\s-]?){7,15}
\* The optional prefix is tried with 3, 2, 1 digits, each with and without the
\* whitespace after them, in the order the backtracking matcher tries them; then
\* the pattern is tried without the prefix.
PhoneMatchEnd(s, i) ==
    LET prefixes ==
            IF s[i] # "+" THEN <<>>
            ELSE LET nd == RunEnd(s, i + 1, Digits) - i
                     opt(d) == IF d > nd THEN <<>>
                               ELSE IF i + d + 1 <= Len(s) /\ s[i + d + 1] \in Whitespace
                               THEN <<i + d + 2, i + d + 1>>
                               ELSE <<i + d + 1>>
                 IN  opt(3) \o opt(2) \o opt(1)
        tries == prefixes \o <<i>>
        hits == {t \in DOMAIN tries : PhoneRunEnd(s, tries[t], 0) # 0}
    IN  IF hits = {} THEN 0
        ELSE PhoneRunEnd(s, tries[CHOOSE t \in hits : \A u \in hits : t <= u], 0)

MatchEnd(re, s, i) ==
    CASE re = "EMAIL_RE" -> EmailMatchEnd(s, i)
      [] re = "PHONE_RE" -> PhoneMatchEnd(s, i)
      [] re = "URL_RE" -> UrlMatchEnd(s, i)

\* re.finditer(s): the matches (as [lo, hi] positions) from position i on,
\* leftmost first, not overlapping
RECURSIVE finditer(_, _, _)
finditer(re, s, i) ==
    Local({j \in i..Len(s) : MatchEnd(re, s, j) # 0}, LAMBDA at :
        IF at = {} THEN <<>>
        ELSE Local([lo |-> Min(at), hi |-> MatchEnd(re, s, Min(at))], LAMBDA m :
                <<m>> \o finditer(re, s, m.hi + 1)))

\* re.findall(s) of a pattern without groups: the matched strings
findall(re, s) ==
    Local(finditer(re, s, 1), LAMBDA ms :
        [n \in 1..Len(ms) |-> Slice(s, ms[n].lo - 1, ms[n].hi)])

\* ------------------------------------------------------------ JSON values

\* A decoded JSON value / Python object: None, bool, int, str, list, dict. A dict
\* is its items in insertion order; its keys are compared only, and are strings
\* of the model.
JBool(b) == [t |-> "bool", b |-> b]
JNum(n) == [t |-> "num", n |-> n]
JList(l) == [t |-> "list", l |-> l]
JDict(d) == [t |-> "dict", d |-> d]

\* the characters of the dict keys that get written out or read in
KeyTable ==
    [description |-> <<"d", "e", "s", "c", "r", "i", "p", "t", "i", "o", "n">>,
     intervention |-> <<"i", "n", "t", "e", "r", "v", "e", "n", "t", "i", "o", "n">>,
     requirement |-> <<"r", "e", "q", "u", "i", "r", "e", "m", "e", "n", "t">>,
     item |-> <<"i", "t", "e", "m">>,
     value |-> <<"v", "a", "l", "u", "e">>,
     text |-> <<"t", "e", "x", "t">>,
     name |-> <<"n", "a", "m", "e">>,
     title |-> <<"t", "i", "t", "l", "e">>,
     json |-> <<"j", "s", "o", "n">>,
     programme_name |-> <<"p", "r", "o", "g", "r", "a", "m", "m", "e", "_", "n", "a", "m", "e">>,
     a |-> <<"a">>,
     x |-> <<"x">>]
\* the key that is written text (keys outside the table are read as "?")
KeyOf(text) ==
    IF \E k \in DOMAIN KeyTable : KeyTable[k] = text
    THEN CHOOSE k \in DOMAIN KeyTable : KeyTable[k] = text
    ELSE "?"

DictKeys(d) == {d[i].k : i \in DOMAIN d}
\* `k in d`
DictHas(d, k) == k \in DictKeys(d)
\* d[k]
DictAt(d, k) == d[CHOOSE i \in DOMAIN d : d[i].k = k].v
\* d[k] = v
DictPut(d, k, v) ==
    IF DictHas(d, k)
    THEN [i \in DOMAIN d |-> IF d[i].k = k THEN [k |-> k, v |-> v] ELSE d[i]]
    ELSE Append(d, [k |-> k, v |-> v])
\* d.get(k, default)
DictGet(d, k, default) == IF DictHas(d, k) THEN DictAt(d, k) ELSE default

\* str(n) of an int
RECURSIVE NatStr(_)
NatStr(n) == IF n < 10 THEN <<DigitChars[n + 1]>>
             ELSE NatStr(n \div 10) \o <<DigitChars[(n % 10) + 1]>>
IntStr(n) == IF n < 0 THEN <<"-">> \o NatStr(-n) ELSE NatStr(n)

\* the characters of s with backslash, newline, tab and the quote q escaped, as
\* repr writes the inside of a str
RECURSIVE ReprEscaped(_, _)
ReprEscaped(q, s) ==
    IF s = <<>> THEN <<>>
    ELSE (IF s[1] = "\\" THEN <<"\\", "\\">>
          ELSE IF s[1] = "\n" THEN <<"\\", "n">>
          ELSE IF s[1] = "\t" THEN <<"\\", "t">>
          ELSE IF s[1] = q THEN <<"\\", s[1]>>
          ELSE <<s[1]>>)
         \o ReprEscaped(q, Tail(s))

\* the inside of a string as json.dumps(ensure_ascii=False) writes it
RECURSIVE JsonEscaped(_)
JsonEscaped(s) ==
    IF s = <<>> THEN <<>>
    ELSE (CASE s[1] = "\"" -> <<"\\", "\"">>
            [] s[1] = "\\" -> <<"\\", "\\">>
            [] s[1] = "\n" -> <<"\\", "n">>
            [] s[1] = "\t" -> <<"\\", "t">>
            [] OTHER -> <<s[1]>>)
         \o JsonEscaped(Tail(s))

JsonString(s) == <<"\"">> \o JsonEscaped(s) \o <<"\"">>

\* json.dumps(v, ensure_ascii=False)
RECURSIVE json_dumps(_)
json_dumps(v) ==
    CASE v.t = "null" -> <<"n", "u", "l", "l">>
      [] v.t = "bool" -> IF v.b THEN <<"t", "r", "u", "e">> ELSE <<"f", "a", "l", "s", "e">>
      [] v.t = "num" -> IntStr(v.n)
      [] v.t = "str" -> JsonString(v.s)
      [] v.t = "list" ->
            <<"[">> \o join(<<",", " ">>, [i \in DOMAIN v.l |-> json_dumps(v.l[i])]) \o <<"]">>
      [] v.t = "dict" ->
            <<"{">> \o join(<<",", " ">>,
                          [i \in DOMAIN v.d |->
                              JsonString(KeyTable[v.d[i].k]) \o <<":", " ">> \o json_dumps(v.d[i].v)])
            \o <<"}">>

\* repr(s) of a str: single quotes, double quotes when s holds ' and no "
StrRepr(s) ==
    LET q == IF Apostrophe \in Range(s) /\ "\"" \notin Range(s) THEN "\"" ELSE Apostrophe
    IN  <<q>> \o ReprEscaped(q, s) \o <<q>>

\* repr(v)
RECURSIVE py_repr(_)
py_repr(v) ==
    CASE v.t = "null" -> <<"N", "o", "n", "e">>
      [] v.t = "bool" -> IF v.b THEN <<"T", "r", "u", "e">> ELSE <<"F", "a", "l", "s", "e">>
      [] v.t = "num" -> IntStr(v.n)
      [] v.t = "str" -> StrRepr(v.s)
      [] v.t = "list" ->
            <<"[">> \o join(<<",", " ">>, [i \in DOMAIN v.l |-> py_repr(v.l[i])]) \o <<"]">>
      [] v.t = "dict" ->
            <<"{">> \o join(<<",", " ">>,
                          [i \in DOMAIN v.d |->
                              StrRepr(KeyTable[v.d[i].k]) \o <<":", " ">> \o py_repr(v.d[i].v)])
            \o <<"}">>

\* str(v)
py_str(v) == IF v.t = "str" THEN v.s ELSE py_repr(v)

\* the items of a sequence that satisfy a test, in order
RECURSIVE NonEmpty(_)
NonEmpty(parts) ==
    IF parts = <<>> THEN <<>>
    ELSE (IF parts[1] # <<>> THEN <<parts[1]>> ELSE <<>>) \o NonEmpty(Tail(parts))

\* -------------------------------------------------- sanitizer / validator

TEMPLATE_DEFAULT ==
    <<JDict(<<
        [k |-> "programme_name", v |-> Str(<<>>)],
        [k |-> "description", v |-> Str(<<>>)],
        [k |-> "programme_objective", v |-> Str(<<>>)],
        [k |-> "eligible_parties", v |-> JList(<<>>)],
        [k |-> "eligibility_criteria", v |-> JList(<<>>)],
        [k |-> "property_requirements", v |-> JList(<<>>)],
        [k |-> "minimum_funding_amount", v |-> Str(<<>>)],
        [k |-> "maximum_funding_amount", v |-> Str(<<>>)],
        [k |-> "funding_type", v |-> Str(<<>>)],
        [k |-> "interest_rate", v |-> Str(<<>>)],
        [k |-> "funding_coverage", v |-> Str(<<>>)],
        [k |-> "total_budget", v |-> Str(<<>>)],
        [k |-> "funding_sources", v |-> JList(<<>>)],
        [k |-> "duration", v |-> Str(<<>>)],
        [k |-> "loan_duration", v |-> Str(<<>>)],
        [k |-> "completion_deadline", v |-> Str(<<>>)],
        [k |-> "application_start_date", v |-> Str(<<>>)],
        [k |-> "application_end_date", v |-> Str(<<>>)],
        [k |-> "energy_performance_targets", v |-> Str(<<>>)],
        [k |-> "eligible_interventions", v |-> JList(<<>>)],
        [k |-> "application_process", v |-> Str(<<>>)],
        [k |-> "managing_body", v |-> Str(<<>>)],
        [k |-> "announcement_date", v |-> Str(<<>>)],
        [k |-> "contact_info", v |-> JList(<<>>)],
        [k |-> "additional_details", v |-> Str(<<>>)]
    >>)>>

ALLOWED_KEYS == DictKeys(TEMPLATE_DEFAULT[1].d)
ARRAY_FIELDS == {"eligible_parties", "eligibility_criteria", "property_requirements",
                 "funding_sources", "eligible_interventions", "contact_info"}
DATE_FIELDS == {"application_start_date", "application_end_date", "announcement_date",
                "completion_deadline", "duration", "loan_duration"}
MONEY_FIELDS == {"minimum_funding_amount", "maximum_funding_amount", "total_budget",
                 "funding_coverage", "interest_rate"}
ANCHORED_FIELDS == {"managing_body", "programme_name"}

\* MONEY_TOKEN_RE = [<U+00E2><U+201A><U+00AC>$]|EUR|USD|euro|dollar, re.IGNORECASE:
\* the character class as the source file holds it (U+00C2 is U+00E2 in upper case)
MoneyTokenWords == {<<"e", "u", "r">>, <<"u", "s", "d">>, <<"e", "u", "r", "o">>,
                    <<"d", "o", "l", "l", "a", "r">>}

\* MONEY_TOKEN_RE.search(s) is not None
MONEY_TOKEN_RE_search(s) ==
    \/ \E i \in DOMAIN s : s[i] \in {ACirc, "<U+00C2>", "<U+201A>", "<U+00AC>", "$"}
    \/ \E w \in MoneyTokenWords : contains(lower(s), w)

\* `page_text or ""`
OrEmpty(page) == IF page.t = "str" THEN page.s ELSE <<>>

\* the sub-keys probed in a dict element, in order
SubKeys == <<"description", "intervention", "requirement", "item", "value", "text",
             "name", "title">>

\* one element of a list value where a str element is appended without the test
\* `if s:` and any other element as str(item)
ListItemUnchecked(item) ==
    IF item.t = "str" THEN <<strip(item.s)>> ELSE <<py_str(item)>>

\* one element of a list value: the strings it adds to out
ListItemStrings(item) ==
    CASE item.t = "null" -> <<>>
      [] item.t = "str" -> NonEmpty(<<strip(item.s)>>)
      [] item.t = "dict" ->
            LET hits == {n \in DOMAIN SubKeys :
                            /\ DictHas(item.d, SubKeys[n])
                            /\ DictAt(item.d, SubKeys[n]).t = "str"
                            /\ strip(DictAt(item.d, SubKeys[n]).s) # <<>>}
                parts == NonEmpty([i \in DOMAIN item.d |->
                            IF item.d[i].v.t \in {"str", "num", "bool"}
                            THEN strip(py_str(item.d[i].v)) ELSE <<>>])
            IN  IF hits # {}
                THEN <<strip(DictAt(item.d, SubKeys[CHOOSE n \in hits : \A m \in hits : n <= m]).s)>>
                ELSE IF parts # <<>> THEN <<join(<<",", " ">>, parts)>>
                ELSE <<>>
      [] OTHER -> <<py_str(item)>>

RECURSIVE ListStrings(_)
ListStrings(l) ==
    IF l = <<>> THEN <<>> ELSE ListItemStrings(l[1]) \o ListStrings(Tail(l))

\* _ensure_list_of_strings
_ensure_list_of_strings(value) ==
    CASE value.t = "null" -> <<>>
      [] value.t = "str" ->
            LET parts == split(value.s, ",")
            IN  NonEmpty([i \in DOMAIN parts |-> strip(parts[i])])
      [] value.t = "list" -> ListStrings(value.l)
      [] OTHER -> <<py_str(value)>>

DigitVal(c) == (CHOOSE i \in DOMAIN DigitChars : DigitChars[i] = c) - 1

DaysIn(y, m) ==
    IF m = 2 THEN (IF (y % 4 = 0 /\ y % 100 # 0) \/ y % 400 = 0 THEN 29 ELSE 28)
    ELSE IF m \in {4, 6, 9, 11} THEN 30 ELSE 31

\* DATE_SLASH_RE = \b(\d{2})/(\d{2})/(\d{4})\b matches at position i
DateMatchAt(s, i) ==
    /\ i + 9 <= Len(s)
    /\ \A k \in {0, 1, 3, 4, 6, 7, 8, 9} : s[i + k] \in Digits
    /\ s[i + 2] = "/" /\ s[i + 5] = "/"
    /\ (i = 1 \/ s[i - 1] \notin WordChars)
    /\ (i + 9 = Len(s) \/ s[i + 10] \notin WordChars)

\* repl: datetime(int(y), int(mth), int(d)).strftime("%Y-%m-%d"), the match itself
\* on ValueError (%Y as the C library of the platform writes it: no padding)
DateRepl(m) ==
    LET d == 10 * DigitVal(m[1]) + DigitVal(m[2])
        mth == 10 * DigitVal(m[4]) + DigitVal(m[5])
        y == 1000 * DigitVal(m[7]) + 100 * DigitVal(m[8]) + 10 * DigitVal(m[9]) + DigitVal(m[10])
        Pad2(n) == IF n < 10 THEN <<"0">> \o NatStr(n) ELSE NatStr(n)
    IN  IF y >= 1 /\ mth \in 1..12 /\ d >= 1 /\ d <= DaysIn(y, mth)
        THEN NatStr(y) \o <<"-">> \o Pad2(mth) \o <<"-">> \o Pad2(d)
        ELSE m

\* DATE_SLASH_RE.sub(repl, s) from position i on: the text up to the next match,
\* the replacement of the match, and so on after it
RECURSIVE DateSub(_, _)
DateSub(s, i) ==
    LET at == {j \in i..Len(s) : DateMatchAt(s, j)}
    IN  IF at = {} THEN Slice(s, i - 1, Len(s))
        ELSE LET j == CHOOSE x \in at : \A y \in at : x <= y
             IN  Slice(s, i - 1, j - 1) \o DateRepl(Slice(s, j - 1, j + 9))
                 \o DateSub(s, j + 10)

\* _to_iso_dates_in_text, for a str
_to_iso_dates_in_text(s) == IF s = <<>> THEN s ELSE DateSub(s, 1)

\* _present_in_page with every value taken as present
PresentAlways(val, page) == val # <<>>

\* _present_in_page, for a str val
_present_in_page(val, page) ==
    IF val = <<>> THEN FALSE ELSE contains(OrEmpty(page), val)

\* _contacts_from_page
_contacts_from_page(page) ==
    Local(OrEmpty(page), LAMBDA text :
        LET emails == Range(findall("EMAIL_RE", text))
            phones == {strip(p) : p \in Range(findall("PHONE_RE", text))}
            urls == Range(findall("URL_RE", text))
        IN  Local(sorted(emails), LAMBDA es :
                [i \in DOMAIN es |-> <<"e", "m", "a", "i", "l", ":", " ">> \o es[i]])
            \o Local(sorted(phones), LAMBDA ps :
                [i \in DOMAIN ps |-> <<"p", "h", "o", "n", "e", ":", " ">> \o ps[i]])
            \o sorted(urls))

\* contact_info taken from the model's value
ContactsFromModel(v_list, page) == v_list

\* `if k == "contact_info": v_list = _contacts_from_page(page_text)`
ContactInfoList(v_list, page) == _contacts_from_page(page)

\* a Python list of the given strings
StrList(l) == JList([i \in DOMAIN l |-> Str(l[i])])

\* the scalar coercion: v if it is a str, else its JSON text (empty for None and ""),
\* then strip()
ScalarText(v) ==
    strip(IF v.t = "str" THEN v.s
          ELSE IF v.t = "null" THEN <<>>
          ELSE json_dumps(v))

\* the body of the loop of sanitize_and_validate for key k: the value of clean[k]
CleanValue(k, cand, schema, page) ==
    LET v == DictGet(cand.d, k, DictGet(schema.d, k, Str(<<>>)))
    IN  IF k \in ARRAY_FIELDS
        THEN LET v_list == _ensure_list_of_strings(v)
             IN  StrList(IF k = "contact_info" THEN ContactInfoList(v_list, page)
                         ELSE v_list)
        ELSE LET s0 == ScalarText(v)
                 s1 == IF k \in DATE_FIELDS THEN _to_iso_dates_in_text(s0) ELSE s0
                 s2 == IF k \in MONEY_FIELDS
                       THEN (IF s1 # <<>> /\ (\/ MONEY_TOKEN_RE_search(OrEmpty(page))
                                              \/ _present_in_page(s1, page))
                             THEN s1 ELSE <<>>)
                       ELSE s1
                 s3 == IF k \in ANCHORED_FIELDS /\ s2 # <<>> /\ ~_present_in_page(s2, page)
                       THEN <<>> ELSE s2
             IN  Str(s3)

\* sanitize_and_validate where a field that fails its anchoring rule raises: no
\* record is returned
SanitizeAborting(cand, schema, page) ==
    IF \E k \in ANCHORED_FIELDS \cup MONEY_FIELDS :
           /\ ScalarText(DictGet(cand.d, k, DictGet(schema.d, k, Str(<<>>)))) # <<>>
           /\ CleanValue(k, cand, schema, page) = Str(<<>>)
    THEN [k \in {} |-> PyNone]
    ELSE [k \in ALLOWED_KEYS |-> CleanValue(k, cand, schema, page)]

\* sanitize_and_validate: clean, as a function of its keys (the order in which the
\* set ALLOWED_KEYS is iterated is not fixed by the code)
sanitize_and_validate(cand, schema, page) ==
    [k \in ALLOWED_KEYS |-> CleanValue(k, cand, schema, page)]

\* ------------------------------------------- calls of sanitize_and_validate

Acme == <<"A", "c", "m", "e">>

\* a page text with two addresses, two numbers and two urls, some of them twice, none
\* of the three kinds in sorted order
ContactsPage ==
    Str(<<"b", "@", "c", ".", "d", "e", " ", "7", "6", "5", "4", "3", "2", "1", " ",
          "h", "t", "t", "p", ":", "/", "/", "x", " ", "a", "@", "b", ".", "c", "d", " ",
          "b", "@", "c", ".", "d", "e", " ", "h", "t", "t", "p", ":", "/", "/", "a", " ",
          "1", "2", "3", "4", "5", "6", "7", " ", "h", "t", "t", "p", ":", "/", "/", "x">>)

NoRecord == [k \in {} |-> PyNone]

SanIdle ==
    /\ result_obj = JDict(<<>>)
    /\ template_obj = TEMPLATE_DEFAULT[1]
    /\ page_text = PyNone
    /\ clean = NoRecord
    /\ sanPc = "idle"
    /\ prev_clean = NoRecord
    /\ prev_obj = JDict(<<>>)

\* The inputs of a call. Page texts: none, empty, with and without the values, with
\* the characters of the class of MONEY_TOKEN_RE, with a currency sign and word,
\* with contact data. Candidates: no key, one key of each kind of field with a value
\* of each JSON shape, or every key of the default schema, and up to MaxExtraKeys
\* keys outside the schema. Schemas: the default, an override file with other keys,
\* an override file with the default's keys and defaults that are not empty.
SanInit ==
    LET PageTexts ==
            { PyNone,
              Str(<<>>),
              Str(Acme \o <<" ", "5">>),
              Str(<<ACirc>>),
              Str(<<Euro, "5">>),
              Str(<<"5", " ", "E", "u", "r">>),
              Str(<<"C", "o", "n", "t", "a", "c", "t", ":", " ", "j", "a", "n", "e", "@",
                    "e", "x", "a", "m", "p", "l", "e", ".", "o", "r", "g">>),
              ContactsPage }
        MixedList ==
            JList(<<Str(<<"a", ",", " ", "b">>), PyNone,
                    JDict(<<[k |-> "name", v |-> Str(<<" ", "N", " ">>)]>>),
                    JDict(<<[k |-> "x", v |-> JNum(1)], [k |-> "a", v |-> Str(<<"q">>)]>>),
                    JNum(3), JList(<<Str(<<"n">>)>>), Str(<<" ">>)>>)
        FieldValues ==
            { PyNone, Str(<<>>), Str(Acme), Str(<<" ">> \o Acme \o <<" ">>),
              Str(<<"Z", "e", "d">>), Str(<<"5">>), JNum(5), JBool(TRUE),
              JList(<<Str(<<"u", "n", "u", "s", "e", "d">>)>>), MixedList,
              JDict(<<[k |-> "name", v |-> Str(Acme)]>>),
              Str(<<"3", "1", "/", "1", "2", "/", "2", "0", "2", "4">>),
              Str(<<"0", "1", "/", "0", "2", "/", "2", "0", "2", "4", "/", "0", "2", "/",
                    "2", "0", "2", "4">>),
              Str(<<"a", ",", " ", "b">>) }
        FocusKeys ==
            {"programme_name", "managing_body", "total_budget", "interest_rate",
             "announcement_date", "description", "eligible_parties", "funding_sources",
             "contact_info"}
        ExtraKeyNames == <<"unknown_key", "source_url", "confidence", "notes">>
        ExtraItems(n) == [i \in 1..n |-> [k |-> ExtraKeyNames[i], v |-> Str(<<"x">>)]]
        FullCandidate ==
            [i \in DOMAIN TEMPLATE_DEFAULT[1].d |->
                [k |-> TEMPLATE_DEFAULT[1].d[i].k,
                 v |-> IF TEMPLATE_DEFAULT[1].d[i].k \in ARRAY_FIELDS
                       THEN JList(<<Str(Acme)>>) ELSE Str(Acme)]]
        Candidates ==
            { JDict(f \o ExtraItems(n)) :
                f \in {<<>>, FullCandidate}
                      \cup {<<[k |-> key, v |-> val]>> : key \in FocusKeys, val \in FieldValues},
                n \in 0..MaxExtraKeys }
        OverrideOtherKeys ==
            JDict(<<[k |-> "title", v |-> Str(<<>>)], [k |-> "programme_name", v |-> Str(Acme)]>>)
        OverrideDefaults ==
            JDict([i \in DOMAIN TEMPLATE_DEFAULT[1].d |->
                    IF TEMPLATE_DEFAULT[1].d[i].k
                           \in {"managing_body", "total_budget", "eligible_parties"}
                    THEN [k |-> TEMPLATE_DEFAULT[1].d[i].k, v |-> Str(<<"Z", "e", "d">>)]
                    ELSE TEMPLATE_DEFAULT[1].d[i]])
    IN  /\ result_obj \in Candidates
        /\ template_obj \in {TEMPLATE_DEFAULT[1], OverrideOtherKeys, OverrideDefaults}
        /\ page_text \in PageTexts
        /\ clean = NoRecord
        /\ sanPc = "ready"
        /\ prev_clean = NoRecord
        /\ prev_obj = JDict(<<>>)

\* cleaned = sanitize_and_validate(parsed[0], template_obj, page_text)
Sanitize ==
    /\ sanPc = "ready"
    /\ clean' = sanitize_and_validate(result_obj, template_obj, page_text)
    /\ sanPc' = "done"
    /\ UNCHANGED <<result_obj, template_obj, page_text, prev_clean, prev_obj>>

\* the same page text and schema sanitized again with another candidate
SanitizeOther ==
    /\ sanPc = "done"
    /\ \E c \in { JDict(<<>>),
                   JDict(<<[k |-> "contact_info",
                            v |-> JList(<<Str(<<"x", "@", "y", ".", "z", "z">>)>>)],
                           [k |-> "managing_body", v |-> Str(Acme)]>>) } :
         /\ result_obj' = c
         /\ clean' = sanitize_and_validate(c, template_obj, page_text)
    /\ prev_clean' = clean
    /\ prev_obj' = result_obj
    /\ sanPc' = "second"
    /\ UNCHANGED <<template_obj, page_text>>

\* the record a call returned, as a candidate object
AsCandidate(rec) ==
    JDict([i \in DOMAIN TEMPLATE_DEFAULT[1].d |->
            [k |-> TEMPLATE_DEFAULT[1].d[i].k, v |-> rec[TEMPLATE_DEFAULT[1].d[i].k]]])

\* sanitize_and_validate on its own output, with the same schema and page text
SanitizeAgain ==
    /\ sanPc = "done"
    /\ result_obj' = AsCandidate(clean)
    /\ clean' = sanitize_and_validate(AsCandidate(clean), template_obj, page_text)
    /\ prev_clean' = clean
    /\ prev_obj' = result_obj
    /\ sanPc' = "again"
    /\ UNCHANGED <<template_obj, page_text>>

\* ------------------------------------------------------------------- URLs

DotPdf == <<".", "p", "d", "f">>
PdfHint == <<"c", "o", "n", "t", "e", "n", "t", "-", "t", "y", "p", "e", "=",
             "a", "p", "p", "l", "i", "c", "a", "t", "i", "o", "n", "/", "p", "d", "f">>

\* urls: a page, a path that ends in .pdf (in either case, and before a query
\* string), a query string that ends in .pdf, and a query string with the content
\* type hint
Urls ==
    { <<"h", "/", "a">>,
      <<"h", "/", "a", ".", "p", "d", "f">>,
      <<"h", "/", "a", ".", "P", "D", "F">>,
      <<"h", "/", "a", ".", "p", "d", "f", "?", "v">>,
      <<"h", "/", "a", "?", "v", ".", "p", "d", "f">>,
      <<"h", "/", "a", "?">> \o PdfHint \o <<"&", "v">> }

\* is_probable_pdf_url
is_probable_pdf_url(u) ==
    LET low == lower(u)
    IN  endswith(low, DotPdf) \/ contains(low, PdfHint)

\* ------------------------------------------------------------- read_link

\* what read_website / read_pdf can hand back as text
Texts == {PyNone, Str(<<>>), Str(<<" ">>), Str(<<"a">>), Str(<<" ", "a", "\n">>)}

NoErr == [kind |-> "None", at |-> 0]
\* an exception raised during the n-th extraction attempt of the call
Err(kind, n) == [kind |-> kind, at |-> n]

Attempts(ev) == {i \in 1..Len(ev) : ev[i].op \in {"html", "pdf"}}
NAttempts(ev) == Cardinality(Attempts(ev))

\* `text and text.strip()` with the whitespace test left out
TextOkNoStrip(text) == text.t = "str" /\ text.s # <<>>

\* the test `if text and text.strip()` of both modes
TextOk(text) == text.t = "str" /\ text.s # <<>> /\ strip(text.s) # <<>>

\* time.sleep(backoff_sec) after every failed attempt
SleepAlways(att, mr) == TRUE

\* `if attempt <= max_retries:` guarding log("Retrying") and time.sleep(backoff_sec)
SleepAfterFailure(att, mr) == att <= mr

\* the except clause of both loops, with last_err kept from the first failure
ExceptKeepFirst(ev, e) ==
    /\ last_err' = IF last_err = NoErr THEN e ELSE last_err
    /\ attempt' = attempt + 1
    /\ events' = IF SleepAfterFailure(attempt + 1, max_retries)
                 THEN ev \o <<[op |-> "sleep", ok |-> FALSE, err |-> NoErr]>>
                 ELSE ev

\* the except clause of both loops: last_err = e; attempt += 1; sleep when retrying.
\* ev is the history with the failed attempt already recorded.
ExceptClause(ev, e) ==
    /\ last_err' = e
    /\ attempt' = attempt + 1
    /\ events' = IF SleepAfterFailure(attempt + 1, max_retries)
                 THEN ev \o <<[op |-> "sleep", ok |-> FALSE, err |-> NoErr]>>
                 ELSE ev

\* read_link(url, max_retries): entry, up to the first loop test
ReadLinkCall(u, mr) ==
    /\ rlPc = "idle"
    /\ url' = u
    /\ max_retries' = mr
    /\ attempt' = 0
    /\ last_err' = NoErr
    /\ events' = <<>>
    /\ tmpMade' = 0
    /\ removeFailed' = FALSE
    /\ rlPc' = IF ~is_probable_pdf_url(u) THEN "html" ELSE "pdf"
    /\ UNCHANGED <<tmpFiles, rlResult>>

\* one iteration of the HTML loop: read_website, the text test, the except clause
HtmlAttempt ==
    /\ rlPc = "html"
    /\ attempt <= max_retries
    /\ \E raised \in BOOLEAN, text \in Texts :
         LET n == NAttempts(events) + 1
             ok == ~raised /\ TextOk(text)
             e == IF raised THEN Err("read_website", n) ELSE Err("Empty body", n)
             ev == events \o <<[op |-> "html", ok |-> ok, err |-> IF ok THEN NoErr ELSE e]>>
         IN  IF ok
             THEN /\ rlPc' = "returned"
                  /\ rlResult' = [t |-> "text", text |-> text]
                  /\ events' = ev
                  /\ UNCHANGED <<attempt, last_err>>
             ELSE /\ ExceptClause(ev, e)
                  /\ UNCHANGED <<rlPc, rlResult>>
    /\ UNCHANGED <<url, max_retries, tmpFiles, tmpMade, removeFailed>>

\* the HTML loop has ended without a return: the log line, then the test of the PDF path
HtmlExhausted ==
    /\ rlPc = "html"
    /\ attempt > max_retries
    /\ IF is_probable_pdf_url(url)
       THEN /\ attempt' = 0
            /\ rlPc' = "pdf"
            /\ UNCHANGED rlResult
       ELSE /\ rlPc' = "raised"
            /\ rlResult' = [t |-> "error", carries |-> last_err]
            /\ UNCHANGED attempt
    /\ UNCHANGED <<url, max_retries, last_err, events, tmpFiles, tmpMade,
                   removeFailed>>

\* one iteration of the PDF loop, first half: fetch_pdf_bytes, then the
\* NamedTemporaryFile(delete=False) block that writes the bytes
PdfStage ==
    /\ rlPc = "pdf"
    /\ attempt <= max_retries
    /\ \E outcome \in {"fetch_raises", "create_raises", "write_raises", "staged"} :
         LET n == NAttempts(events) + 1
             f == [n |-> tmpMade + 1]
             fail(kind) == [op |-> "pdf", ok |-> FALSE, err |-> Err(kind, n)]
         IN  CASE outcome = "fetch_raises" ->
                    /\ ExceptClause(events \o <<fail("fetch_pdf_bytes")>>, Err("fetch_pdf_bytes", n))
                    /\ UNCHANGED <<rlPc, tmpFiles, tmpMade>>
               [] outcome = "create_raises" ->
                    /\ ExceptClause(events \o <<fail("NamedTemporaryFile")>>, Err("NamedTemporaryFile", n))
                    /\ UNCHANGED <<rlPc, tmpFiles, tmpMade>>
               [] outcome = "write_raises" ->
                    \* the with block closes the file; delete=False leaves it on disk
                    /\ ExceptClause(events \o <<fail("tmp.write")>>, Err("tmp.write", n))
                    /\ tmpFiles' = tmpFiles \cup {f}
                    /\ tmpMade' = tmpMade + 1
                    /\ UNCHANGED rlPc
               [] outcome = "staged" ->
                    /\ tmpFiles' = tmpFiles \cup {f}
                    /\ tmpMade' = tmpMade + 1
                    /\ rlPc' = "pdf_staged"
                    /\ UNCHANGED <<attempt, last_err, events>>
    /\ UNCHANGED <<url, max_retries, removeFailed, rlResult>>

\* second half: read_pdf(tmp_path) with its finally (os.remove, errors swallowed),
\* the text test, the except clause
PdfExtract ==
    /\ rlPc = "pdf_staged"
    /\ \E raised \in BOOLEAN, text \in Texts, removed \in BOOLEAN :
         LET n == NAttempts(events) + 1
             f == [n |-> tmpMade]
             ok == ~raised /\ TextOk(text)
             e == IF raised THEN Err("read_pdf", n) ELSE Err("Empty PDF text", n)
             ev == events \o <<[op |-> "pdf", ok |-> ok, err |-> IF ok THEN NoErr ELSE e]>>
         IN  /\ tmpFiles' = IF removed THEN tmpFiles \ {f} ELSE tmpFiles
             /\ removeFailed' = (removeFailed \/ ~removed)
             /\ IF ok
                THEN /\ rlPc' = "returned"
                     /\ rlResult' = [t |-> "text", text |-> text]
                     /\ events' = ev
                     /\ UNCHANGED <<attempt, last_err>>
                ELSE /\ ExceptClause(ev, e)
                     /\ rlPc' = "pdf"
                     /\ UNCHANGED rlResult
    /\ UNCHANGED <<url, max_retries, tmpMade>>

\* the PDF loop has ended without a return: the final raise
PdfExhausted ==
    /\ rlPc = "pdf"
    /\ attempt > max_retries
    /\ rlPc' = "raised"
    /\ rlResult' = [t |-> "error", carries |-> last_err]
    /\ UNCHANGED <<url, max_retries, attempt, last_err, events, tmpFiles, tmpMade,
                   removeFailed>>

\* ------------------------------------------------- decoding of the reply

\* the result of reading a value: ok, the value, the position after it
NoParse == [ok |-> FALSE, v |-> PyNone, at |-> 0]
Parsed(v, at) == [ok |-> TRUE, v |-> v, at |-> at]

\* the position of the first character from position i on that is not whitespace
SkipWs(s, i) == RunEnd(s, i, Whitespace) + 1

\* a JSON string that starts at position i: the characters up to the next quote
\* (no escapes are read, and a control character inside a string is an error)
ParseString(s, i) ==
    IF i > Len(s) \/ s[i] # "\"" THEN NoParse
    ELSE Local({k \in (i + 1)..Len(s) : s[k] = "\""}, LAMBDA close :
            IF close = {} THEN NoParse
            ELSE Local(Slice(s, i, Min(close) - 1), LAMBDA body :
                    IF Range(body) \cap {"\\", "\n", "\t"} # {} THEN NoParse
                    ELSE Parsed(body, Min(close) + 1)))

\* int(digits)
RECURSIVE NatVal(_)
NatVal(ds) ==
    IF ds = <<>> THEN 0
    ELSE 10 * NatVal(SubSeq(ds, 1, Len(ds) - 1)) + DigitVal(ds[Len(ds)])

\* a JSON integer that starts at position i (a fraction or an exponent is not read)
ParseNumber(s, i) ==
    Local(IF s[i] = "-" THEN i + 1 ELSE i, LAMBDA d :
        Local(RunEnd(s, d, Digits), LAMBDA e :
            IF e < d \/ (e > d /\ s[d] = "0") THEN NoParse
            ELSE IF e < Len(s) /\ s[e + 1] \in {".", "e", "E"} THEN NoParse
            ELSE Parsed(JNum((IF d > i THEN -1 ELSE 1) * NatVal(Slice(s, d - 1, e))), e + 1)))

\* a JSON value that starts at or after position i; the elements of an array after
\* "[" or ","; the members of an object after "{" or ","
RECURSIVE ParseValue(_, _), ParseElements(_, _, _), ParseMembers(_, _, _)
ParseValue(s, i0) ==
    Local(SkipWs(s, i0), LAMBDA i :
        IF i > Len(s) THEN NoParse
        ELSE IF s[i] = "\""
        THEN Local(ParseString(s, i), LAMBDA r :
                IF r.ok THEN Parsed(Str(r.v), r.at) ELSE NoParse)
        ELSE IF s[i] = "["
        THEN Local(SkipWs(s, i + 1), LAMBDA j :
                IF j <= Len(s) /\ s[j] = "]" THEN Parsed(JList(<<>>), j + 1)
                ELSE ParseElements(s, j, <<>>))
        ELSE IF s[i] = "{"
        THEN Local(SkipWs(s, i + 1), LAMBDA j :
                IF j <= Len(s) /\ s[j] = "}" THEN Parsed(JDict(<<>>), j + 1)
                ELSE ParseMembers(s, j, <<>>))
        ELSE IF OccursAt(s, <<"n", "u", "l", "l">>, i - 1) THEN Parsed(PyNone, i + 4)
        ELSE IF OccursAt(s, <<"t", "r", "u", "e">>, i - 1) THEN Parsed(JBool(TRUE), i + 4)
        ELSE IF OccursAt(s, <<"f", "a", "l", "s", "e">>, i - 1) THEN Parsed(JBool(FALSE), i + 5)
        ELSE ParseNumber(s, i))
ParseElements(s, i, acc) ==
    Local(ParseValue(s, i), LAMBDA r :
        IF ~r.ok THEN NoParse
        ELSE Local(SkipWs(s, r.at), LAMBDA j :
                IF j > Len(s) THEN NoParse
                ELSE IF s[j] = "," THEN ParseElements(s, j + 1, Append(acc, r.v))
                ELSE IF s[j] = "]" THEN Parsed(JList(Append(acc, r.v)), j + 1)
                ELSE NoParse))
ParseMembers(s, i, acc) ==
    Local(ParseString(s, SkipWs(s, i)), LAMBDA key :
        IF ~key.ok \/ SkipWs(s, key.at) > Len(s) THEN NoParse
        ELSE IF s[SkipWs(s, key.at)] # ":" THEN NoParse
        ELSE Local(ParseValue(s, SkipWs(s, key.at) + 1), LAMBDA r :
                IF ~r.ok THEN NoParse
                ELSE Local(SkipWs(s, r.at), LAMBDA j :
                        IF j > Len(s) THEN NoParse
                        ELSE IF s[j] = ","
                        THEN ParseMembers(s, j + 1, DictPut(acc, KeyOf(key.v), r.v))
                        ELSE IF s[j] = "}"
                        THEN Parsed(JDict(DictPut(acc, KeyOf(key.v), r.v)), j + 1)
                        ELSE NoParse)))

\* safe_read_json of llm_axe.core: json.loads(text), None when text is not one JSON
\* value
safe_read_json(text) ==
    Local(ParseValue(text, 1), LAMBDA r :
        IF r.ok /\ SkipWs(text, r.at) > Len(text) THEN r.v ELSE PyNone)

\* the shape test with `not isinstance(parsed, list)` alone
NotAList(parsed) == parsed.t # "list"

\* `not isinstance(parsed, list) or not parsed or not isinstance(parsed[0], dict)`
ShapeRejected(parsed) ==
    \/ parsed.t # "list"
    \/ parsed.l = <<>>
    \/ parsed.l[1].t # "dict"

Fence == <<Backtick, Backtick, Backtick>>

\* extract_json of va3, the cleaning of the reply: strip, the fences and the first
\* "json" removed from a reply that starts with a fence, then the slice from the
\* first "[" to the last "]" (else from the first "{" to the last "}") of a text
\* that does not start with "["
Va3Cleaned(text) ==
    Local(strip(text), LAMBDA c0 :
        Local(IF startswith(c0, Fence)
              THEN strip(replace_first(strip_chars(c0, {Backtick}),
                                       <<"j", "s", "o", "n">>, <<>>))
              ELSE c0, LAMBDA c1 :
            IF startswith(strip(c1), <<"[">>) THEN c1
            ELSE IF find(c1, <<"[">>) # -1 /\ rfind(c1, <<"]">>) # -1
            THEN Slice(c1, find(c1, <<"[">>), rfind(c1, <<"]">>) + 1)
            ELSE IF find(c1, <<"{">>) # -1 /\ rfind(c1, <<"}">>) # -1
            THEN Slice(c1, find(c1, <<"{">>), rfind(c1, <<"}">>) + 1)
            ELSE c1))

\* extract_json of va3 on the reply raw: the list it returns, or ValueError
Va3ExtractJson(text) ==
    Local(safe_read_json(Va3Cleaned(text)), LAMBDA parsed :
        IF ShapeRejected(parsed) THEN [kind |-> "ValueError", value |-> PyNone]
        ELSE [kind |-> "return", value |-> parsed])

\* extract_json of va2 on the reply raw: [cleaned], or ExtractionError carrying raw
\* (parsed[0] and result_obj.get raise on another shape than a list of a dict)
Va2Parsed(text) ==
    Local(safe_read_json(text), LAMBDA parsed :
        IF ShapeRejected(parsed) THEN [kind |-> "ExtractionError", value |-> Str(text)]
        ELSE [kind |-> "return", value |-> parsed])
extract_json(text, schema, page) ==
    Local(Va2Parsed(text), LAMBDA r :
        IF r.kind # "return" THEN r
        ELSE IF r.value.t = "list" /\ r.value.l # <<>> /\ r.value.l[1].t = "dict"
        THEN [kind |-> "return",
              value |-> <<sanitize_and_validate(r.value.l[1], schema, page)>>]
        ELSE [kind |-> "Exception", value |-> PyNone])

\* --------------------------------------------------- replies of the model

\* the reply that holds body bare, inside code fences with or without a language
\* label, or inside prose
Wrap(w, body) ==
    CASE w = "bare" -> body
      [] w = "fence_json" -> Fence \o <<"j", "s", "o", "n", "\n">> \o body \o <<"\n">> \o Fence
      [] w = "fence" -> Fence \o <<"\n">> \o body \o <<"\n">> \o Fence
      [] w = "prose" -> <<"p", "r", "e", "f", "i", "x", " ">> \o body
                        \o <<" ", "s", "u", "f", "f", "i", "x">>
      [] w = "prose_bracket" -> <<"S", "e", "e", " ", "[", "1", "]", ":", " ">> \o body

NoJsonHere == <<"n", "o", " ", "j", "s", "o", "n", " ", "h", "e", "r", "e">>

\* ------------------------------------ the parsing step, on one reply (va2, va3)

ParseIdle ==
    /\ reply = <<>>
    /\ inner = PyNone
    /\ parsePc = "idle"
    /\ parseOut = [kind |-> "none", value |-> PyNone]
    /\ parseSaved = <<>>
    /\ parseResult = <<>>

\* The replies: an array that holds one object, written as json.dumps writes it
\* (and [{"a":1}] also without the optional spaces), in each wrapping; and replies
\* that hold no array of one object.
ParseInit ==
    LET A1 == JDict(<<[k |-> "a", v |-> JNum(1)]>>)
        ReplyObjects ==
            { A1,
              JDict(<<[k |-> "a", v |-> Str(<<"j", "s", "o", "n">>)]>>),
              JDict(<<[k |-> "a", v |-> JList(<<JNum(1)>>)]>>),
              JDict(<<[k |-> "name", v |-> Str(Acme)]>>),
              JDict(<<[k |-> "a", v |-> Str(<<"x">>)], [k |-> "x", v |-> PyNone]>>),
              JDict(<<>>) }
        ArrayTexts(obj) ==
            {json_dumps(JList(<<obj>>))}
            \cup (IF obj = A1 THEN {<<"[", "{", "\"", "a", "\"", ":", "1", "}", "]">>} ELSE {})
        Wraps == {"bare", "fence_json", "fence", "prose", "prose_bracket"}
        OtherReplies ==
            { NoJsonHere, <<>>, <<"[", "]">>, <<"[", "1", "]">>, <<"n", "u", "l", "l">>,
              json_dumps(A1) }
    IN  /\ \/ \E obj \in ReplyObjects, w \in Wraps :
                /\ reply \in {Wrap(w, body) : body \in ArrayTexts(obj)}
                /\ inner = obj
           \/ /\ reply \in OtherReplies
              /\ inner = PyNone
        /\ parsePc = "reply"
        /\ parseOut = [kind |-> "none", value |-> PyNone]
        /\ parseSaved = <<>>
    /\ parseResult = <<>>

\* extract_json of va3 from the reply on: the raw reply is saved before ValueError
Va3Parse ==
    /\ parsePc = "reply"
    /\ parseOut' = Va3ExtractJson(reply)
    /\ parseSaved' = IF Va3ExtractJson(reply).kind = "ValueError"
                     THEN Append(parseSaved, reply) ELSE parseSaved
    /\ parsePc' = "va3"
    /\ UNCHANGED <<reply, inner, parseResult>>

\* extract_json of va2 from the reply on, up to the candidate parsed[0]
Va2Parse ==
    /\ parsePc = "reply"
    /\ parseOut' = Va2Parsed(reply)
    /\ parseSaved' = IF Va2Parsed(reply).kind = "ExtractionError"
                     THEN Append(parseSaved, reply) ELSE parseSaved
    /\ parsePc' = "va2"
    /\ UNCHANGED <<reply, inner, parseResult>>

\* interactive_loop and main of va3: llm_output = extract_json(llm, text, template,
\* url), then save_result(llm_output, url)
Va3SaveResult ==
    /\ parsePc = "va3"
    /\ parseOut.kind = "return"
    /\ parseResult' = Append(parseResult, parseOut.value)
    /\ parsePc' = "va3_saved"
    /\ UNCHANGED <<reply, inner, parseOut, parseSaved>>

\* ------------------------------------------------- interactive_loop of va2

LoopIdle ==
    /\ loopPc = "off"
    /\ console = "utf-8"
    /\ turn = 0
    /\ loopUrl = <<>>
    /\ content = PyNone
    /\ raw = <<>>
    /\ rawFiles = {}
    /\ resultFiles = {}
    /\ history = <<>>

\* llm and template_obj are set, and the banner is logged
LoopInit ==
    /\ loopPc = "input"
    /\ console \in {"utf-8", "ascii"}
    /\ turn = 0
    /\ loopUrl = <<>>
    /\ content = PyNone
    /\ raw = <<>>
    /\ rawFiles = {}
    /\ resultFiles = {}
    /\ history = <<>>

\* what was done for the url of this turn
Done(outcome) ==
    Append(history, [turn |-> turn, url |-> loopUrl, outcome |-> outcome,
                     raw |-> IF loopPc = "asked" THEN Str(raw) ELSE PyNone])

\* input("URL> ") ends with EOFError or KeyboardInterrupt: break
LoopEnd ==
    /\ loopPc = "input"
    /\ loopPc' = "exited"
    /\ UNCHANGED <<console, turn, loopUrl, content, raw, rawFiles, resultFiles, history>>

\* user_input = input("URL> ").strip(): continue, break, or url = user_input
LoopInput ==
    /\ loopPc = "input"
    /\ turn < MaxTurns
    /\ \E line \in { <<" ">>, <<"e", "x", "i", "t">>, <<"Q", "u", "i", "t", " ">>,
                      <<"h", "/", "a">>, <<" ", "h", "/", "b", "\n">> } :
         /\ loopUrl' = strip(line)
         /\ loopPc' = IF strip(line) = <<>> THEN "input"
                      ELSE IF lower(strip(line)) \in {<<"e", "x", "i", "t">>, <<"q", "u", "i", "t">>}
                      THEN "exited"
                      ELSE "url"
    /\ turn' = turn + 1
    /\ raw' = <<>>
    /\ content' = PyNone
    /\ UNCHANGED <<console, rawFiles, resultFiles, history>>

\* content = read_link(url): the text, or an exception that `except Exception` logs
LoopReadLink ==
    /\ loopPc = "url"
    /\ \/ /\ content' = Str(Acme \o <<" ", "5">>)
          /\ loopPc' = "fetched"
          /\ UNCHANGED history
       \/ /\ loopPc' = "input"
          /\ history' = Done("Exception")
          /\ UNCHANGED content
    /\ UNCHANGED <<console, turn, loopUrl, raw, rawFiles, resultFiles>>

\* raw = llm.ask(prompts, ...) in extract_json: the reply, or an exception
LoopAsk ==
    /\ loopPc = "fetched"
    /\ \/ /\ raw' \in
                { NoJsonHere, <<Euro, "5">>, <<"[", "]">>, <<"[", "1", "]">>,
                  json_dumps(JDict(<<[k |-> "programme_name", v |-> Str(Acme)]>>)),
                  json_dumps(JList(<<JDict(<<[k |-> "programme_name", v |-> Str(Acme)]>>)>>)),
                  Wrap("fence_json", json_dumps(JList(<<JDict(<<[k |-> "a", v |-> JNum(1)]>>)>>))) }
          /\ loopPc' = "asked"
          /\ UNCHANGED history
       \/ /\ loopPc' = "input"
          /\ history' = Done("Exception")
          /\ UNCHANGED raw
    /\ UNCHANGED <<console, turn, loopUrl, content, rawFiles, resultFiles>>

\* a file of ./outputs: files written while one input line is processed carry the
\* number of the line as their time stamp
File(data) == [ts |-> turn, url |-> loopUrl, data |-> data]

\* print(text) writes text to sys.stdout, or raises UnicodeEncodeError when the
\* encoding of sys.stdout has no code for a character of text
Encodable(text, enc) ==
    \/ enc = "utf-8"
    \/ \A n \in DOMAIN text : text[n] \notin {"<U+00AC>", ACirc, "<U+201A>", Euro}

\* the statements of the handler of ExtractionError (lines 364-369) are outside the
\* try statement: what print(ee.raw) raises leaves interactive_loop
HandlerEnds(text, enc) == IF Encodable(text, enc) THEN "input" ELSE "crashed"

\* the rest of extract_json and of the try statement: save_raw and ExtractionError,
\* then print(ee.raw) and save_raw in its handler; or save_result; or the handler of
\* Exception
LoopExtract ==
    /\ loopPc = "asked"
    /\ LET out == extract_json(raw, TEMPLATE_DEFAULT[1], content)
       IN  /\ loopPc' = IF out.kind = "ExtractionError"
                        THEN HandlerEnds(out.value.s, console) ELSE "input"
           /\ rawFiles' = IF out.kind = "ExtractionError"
                          THEN (rawFiles \cup {File(Str(raw))})
                               \cup (IF HandlerEnds(out.value.s, console) = "input"
                                     THEN {File(out.value)} ELSE {})
                          ELSE rawFiles
           /\ resultFiles' = IF out.kind = "return"
                             THEN resultFiles \cup {File(out.value)}
                             ELSE resultFiles
           /\ history' = Done(IF out.kind = "return" THEN "saved" ELSE out.kind)
    /\ UNCHANGED <<console, turn, loopUrl, content, raw>>

\* ------------------------------------------------ run_with_warning and main (va1)
\*
\* Threads: the main thread, and per call of run_with_warning the worker t and the
\* heartbeat hb.  Time is counted in ticks: only the wrapped call, time.sleep and
\* the wait for the user's input take time, every other step of a thread happens
\* before the clock moves on (in any order with the steps of the other threads),
\* and time.sleep(d) lasts d ticks.

Main == <<"main", 0>>
Hb(i) == <<"hb", i>>

\* the texts run_with_warning can be given, and the fallback of line 123
DefaultMsg ==
    <<"[", "I", "N", "F", "O", "]", " ", "P", "l", "e", "a", "s", "e", " ", "w", "a",
      "i", "t", ",", " ", "y", "o", "u", "r", " ", "r", "e", "q", "u", "e", "s",
      "t", " ", "i", "s", " ", "b", "e", "i", "n", "g", " ", "p", "r", "o", "c",
      "e", "s", "s", "e", "d", ".", ".", ".">>
\* the keyword arguments of a call: activity_steps, activity_msg, warning_msg
MsgConfigs ==
    { [activity_steps |-> st, activity_msg |-> PyNone, warning_msg |-> PyNone]
          : st \in {PyNone, JList(<<>>), JList(<<Str(<<"a">>)>>),
                    JList(<<Str(<<"a">>), Str(<<"b">>)>>)} }
    \cup { [activity_steps |-> JList(<<>>), activity_msg |-> Str(<<"m">>),
            warning_msg |-> Str(<<"w">>)],
           [activity_steps |-> PyNone, activity_msg |-> PyNone, warning_msg |-> Str(<<"w">>)] }

\* the wrapped call lasts at most MaxDuration ticks
MaxDuration == MaxWarningAfter + MaxStatusInterval + 1

\* lines 116-123: the steps the heartbeat goes through
StepsOf(c) ==
    IF c.activity_steps # PyNone /\ c.activity_steps.l # <<>> THEN c.activity_steps.l
    ELSE IF c.activity_msg # PyNone /\ c.activity_msg.s # <<>> THEN <<c.activity_msg>>
    ELSE IF c.warning_msg # PyNone /\ c.warning_msg.s # <<>> THEN <<c.warning_msg>>
    ELSE <<Str(DefaultMsg)>>

\* what the wrapped function does when it ends: it returns a value, raises an
\* Exception, or raises a BaseException that is no Exception (SystemExit,
\* KeyboardInterrupt, asyncio.CancelledError)
FuncOutcomes ==
    { [kind |-> "return", value |-> v] : v \in {PyNone, Str(<<"o", "k">>)} }
    \cup { [kind |-> "Exception", value |-> Str(<<"e">>)],
           [kind |-> "BaseException", value |-> Str(<<"x">>)] }

NoOutcome == [kind |-> "none", value |-> PyNone]

\* result = {} (line 98)
EmptyDict == [k \in {} |-> PyNone]

\* lines 98-110: the state of a call after t.start()
NewCall(wa, si, msgs) ==
    [ warning_after |-> wa, status_interval |-> si, msgs |-> msgs,
      tPc |-> "func", outcome |-> NoOutcome, result |-> EmptyDict,
      hbPc |-> "unstarted", rem |-> 0, printed |-> 0, elapsed |-> 0,
      lines |-> <<>>, ret |-> NoOutcome, doneAt |-> 0, slotLog |-> <<>> ]

NeverAlive(c) == FALSE

\* t.is_alive()
is_alive(c) == c.tPc # "dead"

\* what target() leaves in result (lines 100-104): a BaseException passes the
\* except clause and ends the thread
Stored(out) ==
    IF out.kind = "return" THEN [k \in {"value"} |-> out.value]
    ELSE IF out.kind = "Exception" THEN [k \in {"exc"} |-> out.value]
    ELSE EmptyDict

DeliveredNone(res) == [kind |-> "return", value |-> PyNone]

\* lines 143-145
Delivered(res) ==
    IF "exc" \in DOMAIN res THEN [kind |-> "raise", value |-> res["exc"]]
    ELSE [kind |-> "return",
          value |-> IF "value" \in DOMAIN res THEN res["value"] ELSE PyNone]

JoinedAtOnce(c) == TRUE

\* t.join() returns
Joined(c) == c.tPc = "dead"

\* the line of line 134, elapsed being int(time.monotonic() - start_time)
StillWorking(elapsed) ==
    Str(<<"[", "I", "N", "F", "O", "]", " ", "S", "t", "i", "l", "l", " ", "w", "o", "r",
          "k", "i", "n", "g", ",", " ", "e", "l", "a", "p", "s", "e", "d", " ">>
        \o NatStr(elapsed)
        \o <<"s", ".", " ", "I", Apostrophe, "m", " ", "s", "t", "i", "l", "l", " ", "p", "r",
          "o", "c", "e", "s", "s", "i", "n", "g", " ", "a", "n", "d", " ", "w", "i",
          "l", "l", " ", "f", "i", "n", "i", "s", "h", " ", "s", "o", "o", "n", ".",
          ".", ".">>)

StatusLineGeneric(c) == StillWorking(c.elapsed)

\* the line the heartbeat prints (lines 128-134)
StatusLine(c) ==
    IF c.printed < Len(StepsOf(c.msgs))
    THEN StepsOf(c.msgs)[c.printed + 1]
    ELSE StillWorking(c.elapsed)

NoGraceSleep(c) == 0

\* time.sleep(warning_after) of line 114
GraceSleep(c) == c.warning_after

\* the output statements of main: safe_print takes print_lock, print and the
\* prompt of input() do not
LockedPrints == {"dbg", "err", "final"}
BarePrints == {"prompt", "completed"}

MonIdle ==
    /\ mainPc = "off"
    /\ mainIn = FALSE
    /\ user_input = <<>>
    /\ response = PyNone
    /\ print_lock = {}
    /\ writers = {}
    /\ calls = <<>>

\* main after load_sources (lines 154-167), at input("You: ")
MonInit ==
    /\ mainPc = "prompt"
    /\ mainIn = FALSE
    /\ user_input = <<>>
    /\ response = PyNone
    /\ print_lock = {}
    /\ writers = {}
    /\ calls = <<>>

\* where main goes after an output statement
AfterPrint(at) ==
    CASE at = "prompt" -> "wait"
      [] at = "dbg" -> "call"
      [] at = "completed" -> "final"
      [] at = "err" -> "final"
      [] at = "final" -> "prompt"

\* safe_print in main: with print_lock: print(...)
MainSafePrintEnter ==
    /\ mainPc \in LockedPrints /\ ~mainIn
    /\ print_lock = {}
    /\ print_lock' = {Main}
    /\ writers' = writers \cup {Main}
    /\ mainIn' = TRUE
    /\ UNCHANGED <<mainPc, user_input, response, calls>>

MainSafePrintLeave ==
    /\ mainPc \in LockedPrints /\ mainIn
    /\ print_lock' = {}
    /\ writers' = writers \ {Main}
    /\ mainIn' = FALSE
    /\ mainPc' = AfterPrint(mainPc)
    /\ UNCHANGED <<user_input, response, calls>>

\* print(...) in main (line 244) and the prompt of input (line 170)
MainPrintEnter ==
    /\ mainPc \in BarePrints /\ ~mainIn
    /\ writers' = writers \cup {Main}
    /\ mainIn' = TRUE
    /\ UNCHANGED <<mainPc, user_input, response, print_lock, calls>>

MainPrintLeave ==
    /\ mainPc \in BarePrints /\ mainIn
    /\ writers' = writers \ {Main}
    /\ mainIn' = FALSE
    /\ mainPc' = AfterPrint(mainPc)
    /\ UNCHANGED <<user_input, response, print_lock, calls>>

\* lines 170-177, 201, 227: the first line read is exit or quit, or a text that
\* holds no url, trusted_sources being empty
MainInput ==
    /\ mainPc = "wait"
    /\ calls = <<>>
    /\ \E line \in { <<"e", "x", "i", "t">>, <<" ", "Q", "u", "i", "t">>, <<"h", "i", " ">> } :
         /\ user_input' = strip(line)
         /\ mainPc' = IF lower(strip(line)) \in {<<"e", "x", "i", "t">>, <<"q", "u", "i", "t">>}
                      THEN "exited" ELSE "dbg"
    /\ response' = PyNone
    /\ UNCHANGED <<mainIn, print_lock, writers, calls>>

\* break (line 172): main returns
MainExit ==
    /\ mainPc = "exited"
    /\ mainPc' = "off"
    /\ UNCHANGED <<mainIn, user_input, response, print_lock, writers, calls>>

\* run_with_warning up to t.start() (lines 98-110)
RwwStart ==
    /\ mainPc = "call"
    /\ \E wa \in 0..MaxWarningAfter, si \in 1..MaxStatusInterval, msgs \in MsgConfigs :
         calls' = Append(calls, NewCall(wa, si, msgs))
    /\ mainPc' = "hb"
    /\ UNCHANGED <<mainIn, user_input, response, print_lock, writers>>

\* hb.start() (lines 137-138): the heartbeat enters time.sleep(warning_after)
RwwHbStart ==
    /\ mainPc = "hb"
    /\ calls' = [calls EXCEPT ![Len(calls)].hbPc = "grace",
                              ![Len(calls)].rem = GraceSleep(calls[Len(calls)])]
    /\ mainPc' = "join"
    /\ UNCHANGED <<mainIn, user_input, response, print_lock, writers>>

\* the wrapped function ends, and target() stores what it stores (lines 100-104)
WorkerFinish(i) ==
    /\ calls[i].tPc = "func"
    /\ \E out \in FuncOutcomes :
         calls' = [calls EXCEPT
                     ![i].tPc = "stored",
                     ![i].outcome = out,
                     ![i].doneAt = calls[i].elapsed,
                     ![i].result = Stored(out),
                     ![i].slotLog = IF out.kind = "BaseException" THEN @
                                    ELSE Append(@, [op |-> "write", by |-> <<"t", i>>,
                                                alive |-> is_alive(calls[i])])]
    /\ UNCHANGED <<mainPc, mainIn, user_input, response, print_lock, writers>>

\* the worker thread ends
WorkerExit(i) ==
    /\ calls[i].tPc = "stored"
    /\ calls' = [calls EXCEPT ![i].tPc = "dead"]
    /\ UNCHANGED <<mainPc, mainIn, user_input, response, print_lock, writers>>

\* t.join() and lines 143-145, then the except / else of the caller in main
\* (lines 244-247)
RwwJoin ==
    /\ mainPc = "join"
    /\ LET i == Len(calls)
           c == calls[i]
           out == Delivered(c.result)
       IN  /\ Joined(c)
           /\ calls' = [calls EXCEPT
                          ![i].ret = out,
                          ![i].slotLog = @ \o [n \in 1..2 |->
                                             [op |-> "read", by |-> Main, alive |-> is_alive(c)]]]
           /\ response' = IF out.kind = "return" THEN out.value
                          ELSE Str(<<"E", "R", "R", "O", "R">>)
           /\ mainPc' = IF out.kind = "return" THEN "completed" ELSE "err"
    /\ UNCHANGED <<mainIn, user_input, print_lock, writers>>

\* time.sleep of the heartbeat is over (lines 114, 135)
HbWake(i) ==
    /\ calls[i].hbPc \in {"grace", "sleep"}
    /\ calls[i].rem = 0
    /\ calls' = [calls EXCEPT ![i].hbPc = "check"]
    /\ UNCHANGED <<mainPc, mainIn, user_input, response, print_lock, writers>>

AfterCheckStays(c) == IF c.tPc # "dead" THEN "lock" ELSE "check"

\* while t.is_alive() (line 127): into the body, or out of heartbeat()
AfterCheck(c) == IF is_alive(c) THEN "lock" ELSE "dead"

HbCheck(i) ==
    /\ calls[i].hbPc = "check"
    /\ calls' = [calls EXCEPT ![i].hbPc = AfterCheck(calls[i])]
    /\ UNCHANGED <<mainPc, mainIn, user_input, response, print_lock, writers>>

\* safe_print of the heartbeat takes print_lock and prints (lines 128-134, 38-40)
HbPrint(i) ==
    /\ calls[i].hbPc = "lock"
    /\ print_lock = {}
    /\ print_lock' = {Hb(i)}
    /\ writers' = writers \cup {Hb(i)}
    /\ calls' = [calls EXCEPT
                   ![i].hbPc = "print",
                   ![i].lines = Append(@, [line |-> StatusLine(calls[i]),
                                           late |-> ~is_alive(calls[i]),
                                           returned |-> calls[i].ret # NoOutcome])]
    /\ UNCHANGED <<mainPc, mainIn, user_input, response>>

\* the end of safe_print, printed += 1, and time.sleep(status_interval) (line 135)
HbSleep(i) ==
    /\ calls[i].hbPc = "print"
    /\ print_lock' = {}
    /\ writers' = writers \ {Hb(i)}
    /\ calls' = [calls EXCEPT
                   ![i].hbPc = "sleep",
                   ![i].rem = calls[i].status_interval,
                   ![i].printed = IF @ < Len(StepsOf(calls[i].msgs)) THEN @ + 1 ELSE @]
    /\ UNCHANGED <<mainPc, mainIn, user_input, response>>

\* a thread that is at a step that takes no time
Busy ==
    \/ mainPc \notin {"wait", "off", "join"}
    \/ mainPc = "join" /\ Joined(calls[Len(calls)])
    \/ \E i \in DOMAIN calls :
         \/ calls[i].tPc = "stored"
         \/ calls[i].hbPc \in {"check", "lock", "print"}
         \/ calls[i].hbPc \in {"grace", "sleep"} /\ calls[i].rem = 0

\* one tick of the clock
Tick ==
    /\ ~Busy
    /\ \A i \in DOMAIN calls : calls[i].tPc = "func" => calls[i].elapsed < MaxDuration
    /\ \E i \in DOMAIN calls : calls[i].tPc = "func" \/ calls[i].hbPc \in {"grace", "sleep"}
    /\ calls' = [i \in DOMAIN calls |->
                   IF calls[i].tPc = "func" \/ calls[i].hbPc \in {"grace", "sleep"}
                   THEN [calls[i] EXCEPT
                           !.elapsed = @ + 1,
                           !.rem = IF calls[i].hbPc \in {"grace", "sleep"} THEN @ - 1 ELSE @]
                   ELSE calls[i]]
    /\ UNCHANGED <<mainPc, mainIn, user_input, response, print_lock, writers>>

\* ------------------------------------------------------------ the chat loops
\*
\* main of va1_url_selector.py, of online_agent.py and of test_online_agent.py, one
\* step per call and per history.append.  In va1 the calls are made through
\* run_with_warning, which returns after its worker thread has ended.

ChatIdle ==
    /\ chatProg = "none"
    /\ chatPc = "off"
    /\ chatTurn = 0
    /\ chatInput = <<>>
    /\ chatResponse = PyNone
    /\ chatHistory = <<>>

\* history = []
ChatInit ==
    /\ chatProg \in {"va1_url_selector", "online_agent", "test_online_agent"}
    /\ chatPc = "input"
    /\ chatTurn = 0
    /\ chatInput = <<>>
    /\ chatResponse = PyNone
    /\ chatHistory = <<>>

\* the one message with every role "user"
MessageFromUser(role, text) == [role |-> "user", content |-> text]

\* {"role": role, "content": text}
Message(role, text) == [role |-> role, content |-> text]

\* `"http://" in user_input or "https://" in user_input`
HoldsUrl(text) ==
    \/ contains(text, <<"h", "t", "t", "p", ":", "/", "/">>)
    \/ contains(text, <<"h", "t", "t", "p", "s", ":", "/", "/">>)

\* user_input = input("You: ").strip(); exit and quit break; response = None (va1);
\* then the branch: agent.search for an input that holds a url, and in va1 for one
\* that matches a trusted source; the plain model call otherwise
ChatInput ==
    /\ chatPc = "input"
    /\ chatTurn < MaxChatTurns
    /\ \E line \in { <<"e", "x", "i", "t">>, <<" ", "Q", "u", "i", "t">>, <<"h", "i", " ">>,
                      <<"s", "e", "e", " ", "h", "t", "t", "p", ":", "/", "/", "x">> },
          matches \in BOOLEAN :
         /\ chatInput' = strip(line)
         /\ chatPc' = IF lower(strip(line)) \in {<<"e", "x", "i", "t">>, <<"q", "u", "i", "t">>}
                      THEN "exited"
                      ELSE IF HoldsUrl(strip(line)) THEN "search"
                      ELSE IF chatProg = "va1_url_selector" /\ matches THEN "search"
                      ELSE "ask"
    /\ chatTurn' = chatTurn + 1
    /\ chatResponse' = PyNone
    /\ UNCHANGED <<chatProg, chatHistory>>

\* what a call of agent.search or llm.ask does: it returns a text or None, or raises
CallOutcomes(text) ==
    { [kind |-> "return", value |-> Str(text)],
      [kind |-> "return", value |-> PyNone],
      [kind |-> "Exception", value |-> PyNone] }

\* response = agent.search(...): in va1 an exception sets response = None, and
\* `if response is None` leads on to the plain model call; in the two other programs
\* the exception ends the program
ChatSearch ==
    /\ chatPc = "search"
    /\ \E out \in CallOutcomes(<<"p", "a", "g", "e">>) :
         /\ chatResponse' = out.value
         /\ chatPc' = IF chatProg = "va1_url_selector"
                      THEN (IF out.value = PyNone THEN "ask" ELSE "append_user")
                      ELSE (IF out.kind = "Exception" THEN "crashed" ELSE "append_user")
    /\ UNCHANGED <<chatProg, chatTurn, chatInput, chatHistory>>

\* response = "[ERROR] failed to get response"
FailedResponse ==
    Str(<<"[", "E", "R", "R", "O", "R", "]", " ", "f", "a", "i", "l", "e", "d", " ", "t", "o",
          " ", "g", "e", "t", " ", "r", "e", "s", "p", "o", "n", "s", "e">>)

\* response = llm.ask(history + [...]): in va1 an exception sets response to the
\* error text; in the two other programs it ends the program
ChatAsk ==
    /\ chatPc = "ask"
    /\ \E out \in CallOutcomes(<<"a", "n", "s", "w", "e", "r">>) :
         /\ chatResponse' = IF out.kind = "Exception" THEN FailedResponse ELSE out.value
         /\ chatPc' = IF out.kind = "Exception" /\ chatProg # "va1_url_selector"
                      THEN "crashed" ELSE "append_user"
    /\ UNCHANGED <<chatProg, chatTurn, chatInput, chatHistory>>

\* history.append({"role": "user", "content": user_input})
ChatAppendUser ==
    /\ chatPc = "append_user"
    /\ chatHistory' = Append(chatHistory, Message("user", Str(chatInput)))
    /\ chatPc' = "append_assistant"
    /\ UNCHANGED <<chatProg, chatTurn, chatInput, chatResponse>>

\* history.append({"role": "assistant", "content": response})
ChatAppendAssistant ==
    /\ chatPc = "append_assistant"
    /\ chatHistory' = Append(chatHistory, Message("assistant", chatResponse))
    /\ chatPc' = "print"
    /\ UNCHANGED <<chatProg, chatTurn, chatInput, chatResponse>>

\* the response is printed, and the loop goes on
ChatPrint ==
    /\ chatPc = "print"
    /\ chatPc' = "input"
    /\ UNCHANGED <<chatProg, chatTurn, chatInput, chatResponse, chatHistory>>

\* ------------------------------------------------ calls of the helper functions

HelperIdle ==
    /\ helperPc = "off"
    /\ helperIn = <<>>
    /\ helperOut = <<>>

\* the texts of up to n pieces: day and month of a date that exists and of one that
\* does not, a year, a month, a blank
RECURSIVE DateTexts(_)
DateTexts(n) ==
    IF n = 0 THEN {<<>>}
    ELSE DateTexts(n - 1)
         \cup { t \o piece : t \in DateTexts(n - 1),
                              piece \in { <<"0", "1", "/", "0", "2">>,
                                          <<"3", "1", "/", "0", "2">>,
                                          <<"/", "2", "0", "2", "4">>,
                                          <<"/", "0", "2">>,
                                          <<" ">> } }

\* the file at the path of load_response_template: none; one that open() or the
\* decoding of its bytes fails on; one that holds a JSON value (a list of up to two
\* elements, or another value) or a text that is no JSON value
TemplateFiles ==
    LET Elements == { JDict(<<[k |-> "title", v |-> Str(<<>>)]>>), JDict(<<>>), JNum(1),
                      Str(<<"x">>), JList(<<JDict(<<>>)>>) }
        Values == { JList(<<>>) } \cup { JList(<<a>>) : a \in Elements }
                  \cup { JList(<<a, b>>) : a \in Elements, b \in Elements }
                  \cup { JDict(<<[k |-> "title", v |-> Str(<<>>)]>>), PyNone, JNum(1) }
        FileTexts == { json_dumps(v) : v \in Values }
                 \cup { <<>>, <<"[", "{">>, <<"[", "{", "}", "]", "x">>, NoJsonHere }
    IN  { [exists |-> FALSE, readable |-> FALSE, text |-> <<>>] }
        \cup { [exists |-> TRUE, readable |-> r, text |-> t] : r \in BOOLEAN, t \in FileTexts }

\* load_response_template: data when the file exists, open() and json.load succeed
\* and data is a list that is not empty and whose first element is a dict;
\* TEMPLATE_DEFAULT otherwise (`except Exception: pass`)
load_response_template(file) ==
    IF ~file.exists \/ ~file.readable THEN TEMPLATE_DEFAULT
    ELSE Local(ParseValue(file.text, 1), LAMBDA r :
            IF /\ r.ok
               /\ SkipWs(file.text, r.at) > Len(file.text)
               /\ r.v.t = "list"
               /\ r.v.l # <<>>
               /\ r.v.l[1].t = "dict"
            THEN r.v.l
            ELSE TEMPLATE_DEFAULT)

HelperInit ==
    /\ \/ /\ helperPc = "date"
          /\ helperIn \in DateTexts(MaxDatePieces)
       \/ /\ helperPc = "file"
          /\ helperIn \in TemplateFiles
    /\ helperOut = <<>>

\* template_list = load_response_template()
LoadTemplate ==
    /\ helperPc = "file"
    /\ helperOut' = <<load_response_template(helperIn)>>
    /\ helperPc' = "loaded"
    /\ UNCHANGED helperIn

\* s = _to_iso_dates_in_text(s): on the text, then on what the call before returned
ToIsoDates ==
    /\ helperPc \in {"date", "once"}
    /\ helperOut' = Append(helperOut,
                           _to_iso_dates_in_text(IF helperOut = <<>> THEN helperIn
                                                 ELSE helperOut[Len(helperOut)]))
    /\ helperPc' = IF helperPc = "date" THEN "once" ELSE "twice"
    /\ UNCHANGED helperIn

FetchIdle ==
    /\ url = <<>>
    /\ max_retries = 0
    /\ rlPc = "idle"
    /\ attempt = 0
    /\ last_err = NoErr
    /\ events = <<>>
    /\ tmpFiles = {}
    /\ tmpMade = 0
    /\ removeFailed = FALSE
    /\ rlResult = [t |-> "none"]

\* each specification runs one part of the program; the variables of the other
\* parts keep their idle values
FetchOnly == UNCHANGED <<sanVars, parseVars, loopVars, monVars, helperVars, chatVars>>
SanOnly == UNCHANGED <<fetchVars, parseVars, loopVars, monVars, helperVars, chatVars>>
ParseOnly == UNCHANGED <<fetchVars, sanVars, loopVars, monVars, helperVars, chatVars>>
LoopOnly == UNCHANGED <<fetchVars, sanVars, parseVars, monVars, helperVars, chatVars>>
MonOnly == UNCHANGED <<fetchVars, sanVars, parseVars, loopVars, helperVars, chatVars>>
HelperOnly == UNCHANGED <<fetchVars, sanVars, parseVars, loopVars, monVars, chatVars>>
ChatOnly == UNCHANGED <<fetchVars, sanVars, parseVars, loopVars, monVars, helperVars>>

FetchInit == FetchIdle /\ SanIdle /\ ParseIdle /\ LoopIdle /\ MonIdle /\ HelperIdle /\ ChatIdle

FetchNext ==
    \/ (\E u \in Urls, mr \in 0..MaxRetriesBound : ReadLinkCall(u, mr)) /\ FetchOnly
    \/ HtmlAttempt /\ FetchOnly
    \/ HtmlExhausted /\ FetchOnly
    \/ PdfStage /\ FetchOnly
    \/ PdfExtract /\ FetchOnly
    \/ PdfExhausted /\ FetchOnly

\* one call of read_link, with any url and max_retries
SpecFetch == FetchInit /\ [][FetchNext]_vars

SanSpecInit == SanInit /\ FetchIdle /\ ParseIdle /\ LoopIdle /\ MonIdle /\ HelperIdle /\ ChatIdle

SanNext ==
    \/ Sanitize /\ SanOnly
    \/ SanitizeOther /\ SanOnly
    \/ SanitizeAgain /\ SanOnly

\* sanitize_and_validate on any candidate, schema and page text, then again on the
\* same schema and page text with another candidate, or with the record it returned
SpecSan == SanSpecInit /\ [][SanNext]_vars

ParseSpecInit == ParseInit /\ FetchIdle /\ SanIdle /\ LoopIdle /\ MonIdle /\ HelperIdle /\ ChatIdle

ParseNext ==
    \/ Va3Parse /\ ParseOnly
    \/ Va2Parse /\ ParseOnly
    \/ Va3SaveResult /\ ParseOnly

\* the parsing step of va3 and of va2 on any reply, and what va3 saves of it
SpecParse == ParseSpecInit /\ [][ParseNext]_vars

LoopSpecInit == LoopInit /\ FetchIdle /\ SanIdle /\ ParseIdle /\ MonIdle /\ HelperIdle /\ ChatIdle

LoopNext ==
    \/ LoopEnd /\ LoopOnly
    \/ LoopInput /\ LoopOnly
    \/ LoopReadLink /\ LoopOnly
    \/ LoopAsk /\ LoopOnly
    \/ LoopExtract /\ LoopOnly

\* interactive_loop of va2 on up to MaxTurns input lines
SpecLoop == LoopSpecInit /\ [][LoopNext]_vars

MonSpecInit == MonInit /\ FetchIdle /\ SanIdle /\ ParseIdle /\ LoopIdle /\ HelperIdle /\ ChatIdle

MonNext ==
    \/ MainSafePrintEnter /\ MonOnly
    \/ MainSafePrintLeave /\ MonOnly
    \/ MainPrintEnter /\ MonOnly
    \/ MainPrintLeave /\ MonOnly
    \/ MainInput /\ MonOnly
    \/ MainExit /\ MonOnly
    \/ RwwStart /\ MonOnly
    \/ RwwHbStart /\ MonOnly
    \/ RwwJoin /\ MonOnly
    \/ (\E i \in DOMAIN calls : WorkerFinish(i)) /\ MonOnly
    \/ (\E i \in DOMAIN calls : WorkerExit(i)) /\ MonOnly
    \/ (\E i \in DOMAIN calls : HbWake(i)) /\ MonOnly
    \/ (\E i \in DOMAIN calls : HbCheck(i)) /\ MonOnly
    \/ (\E i \in DOMAIN calls : HbPrint(i)) /\ MonOnly
    \/ (\E i \in DOMAIN calls : HbSleep(i)) /\ MonOnly
    \/ Tick /\ MonOnly

\* one turn of the loop of main of va1 for an input that holds no url, with its
\* call of run_with_warning, up to the next prompt
SpecMon == MonSpecInit /\ [][MonNext]_vars

\* the same, where a thread that can take a step takes one and time goes on
SpecMonLive == SpecMon /\ WF_vars(MonNext)

HelperSpecInit == HelperInit /\ FetchIdle /\ SanIdle /\ ParseIdle /\ LoopIdle /\ MonIdle /\ ChatIdle

HelperNext ==
    \/ ToIsoDates /\ HelperOnly
    \/ LoadTemplate /\ HelperOnly

\* _to_iso_dates_in_text on any text, then on its own output; and
\* load_response_template on any file
SpecHelper == HelperSpecInit /\ [][HelperNext]_vars

ChatSpecInit ==
    ChatInit /\ FetchIdle /\ SanIdle /\ ParseIdle /\ LoopIdle /\ MonIdle /\ HelperIdle

ChatNext ==
    \/ ChatInput /\ ChatOnly
    \/ ChatSearch /\ ChatOnly
    \/ ChatAsk /\ ChatOnly
    \/ ChatAppendUser /\ ChatOnly
    \/ ChatAppendAssistant /\ ChatOnly
    \/ ChatPrint /\ ChatOnly

\* one of the three chat loops on up to MaxChatTurns input lines
SpecChat == ChatSpecInit /\ [][ChatNext]_vars

\* --------------------------------------- claims about sanitize_and_validate

Sanitized == sanPc \in {"done", "second"}
NoText == Str(<<>>)

\* the value the call takes for key k: the candidate's, else the schema's default
TakenValue(k) == DictGet(result_obj.d, k, DictGet(template_obj.d, k, NoText))

\* C1: the key set of the record returned by sanitize_and_validate equals the key
\* set of the schema object passed as template_obj, no key added and none omitted.
C1_KeysEqualSchemaKeys ==
    Sanitized => DOMAIN clean = DictKeys(template_obj.d)

\* What the code does instead: the keys of the record are those of the built-in
\* default, whatever schema is passed.
C1_KeysEqualDefaultKeys ==
    Sanitized => DOMAIN clean = DictKeys(TEMPLATE_DEFAULT[1].d)

\* C2 as stated: for an anchored field, a candidate value that is not a literal
\* substring of the page text gives the empty string.
C2_RawValueAbsentGivesEmpty ==
    Sanitized =>
        \A k \in ANCHORED_FIELDS :
            (/\ DictHas(result_obj.d, k)
             /\ DictAt(result_obj.d, k).t = "str"
             /\ ~contains(OrEmpty(page_text), DictAt(result_obj.d, k).s))
            => clean[k] = NoText

\* C2: for an anchored field (managing_body, programme_name), when the value taken
\* for the field (the candidate's, else the schema default), rendered as text and
\* stripped of surrounding whitespace, is not a literal substring of the page text,
\* the sanitized value is the empty string; every non-empty anchored value of a
\* sanitized record is a literal substring of the page text it was produced from.
C2_AnchoredValuesArePresent ==
    Sanitized =>
        \A k \in ANCHORED_FIELDS :
            /\ clean[k].t = "str"
            /\ ~contains(OrEmpty(page_text), ScalarText(TakenValue(k))) => clean[k] = NoText
            /\ clean[k] # NoText => contains(OrEmpty(page_text), clean[k].s)

\* a candidate value that the page does not hold was cleared, beside one that it
\* holds only once stripped and that was kept
C2_Witness ==
    /\ sanPc = "done"
    /\ page_text = Str(<<"A", "c", "m", "e", " ", "5">>)
    /\ \/ /\ DictHas(result_obj.d, "managing_body")
          /\ DictAt(result_obj.d, "managing_body") = Str(<<"Z", "e", "d">>)
          /\ clean["managing_body"] = NoText
       \/ /\ DictHas(result_obj.d, "programme_name")
          /\ DictAt(result_obj.d, "programme_name") = Str(<<"Z", "e", "d">>)
          /\ clean["programme_name"] = NoText

\* a currency indicator token: a currency symbol, or one of the words EUR, USD,
\* euro, dollar in any case
HasCurrencyToken(s) ==
    \/ \E i \in DOMAIN s : s[i] \in {Euro, "$"}
    \/ \E w \in MoneyTokenWords : contains(lower(s), w)

\* C3: for a money field (minimum_funding_amount, maximum_funding_amount,
\* total_budget, funding_coverage, interest_rate), when the page text holds no
\* currency indicator token and does not hold the value verbatim, the sanitized
\* value is the empty string.
C3_NoTokenNoValueGivesEmpty ==
    Sanitized =>
        \A k \in MONEY_FIELDS :
            (/\ ~HasCurrencyToken(OrEmpty(page_text))
             /\ ~contains(OrEmpty(page_text), ScalarText(TakenValue(k))))
            => clean[k] = NoText

JaneMail == <<"j", "a", "n", "e", "@", "e", "x", "a", "m", "p", "l", "e", ".", "o", "r", "g">>
JanePage == Str(<<"C", "o", "n", "t", "a", "c", "t", ":", " ">> \o JaneMail)

\* C4: contact_info of a sanitized record depends on the page text only: two calls
\* on the same page text return the same contact_info list whatever their
\* candidates are, and the page text "Contact: jane@example.org" gives exactly
\* ["email: jane@example.org"], also for the candidate contact_info ["unused"].
C4_ContactInfoFromPageOnly ==
    /\ sanPc = "second" => clean["contact_info"] = prev_clean["contact_info"]
    /\ (Sanitized /\ page_text = JanePage)
       => clean["contact_info"] = JList(<<Str(<<"e", "m", "a", "i", "l", ":", " ">> \o JaneMail)>>)

\* two calls on the example page, the first with contact_info ["unused"], the
\* second with another contact_info, returned the same list
C4_Witness ==
    /\ sanPc = "second"
    /\ page_text = JanePage
    /\ DictHas(prev_obj.d, "contact_info")
    /\ DictAt(prev_obj.d, "contact_info") = JList(<<Str(<<"u", "n", "u", "s", "e", "d">>)>>)
    /\ DictHas(result_obj.d, "contact_info")
    /\ DictAt(result_obj.d, "contact_info") # DictAt(prev_obj.d, "contact_info")
    /\ clean["contact_info"] = JList(<<Str(<<"e", "m", "a", "i", "l", ":", " ">> \o JaneMail)>>)
    /\ prev_clean["contact_info"] = clean["contact_info"]

\* ------------------------------------------- claims about the reply parsing

\* the reply decodes to a non-empty JSON array whose first element is an object
DecodesToArrayOfObject(text) ==
    /\ safe_read_json(text).t = "list"
    /\ safe_read_json(text).l # <<>>
    /\ safe_read_json(text).l[1].t = "dict"

\* C5: when the reply of the model does not decode to a non-empty JSON array whose
\* first element is an object, extract_json raises ExtractionError for that url
\* (no record is returned), the raw reply is in a raw-output file of that url
\* before the next url is processed, and no extracted-result file is saved for
\* that url.
C5_BadReplyRaisesAndKeepsRaw ==
    \A n \in DOMAIN history :
        (history[n].raw # PyNone /\ ~DecodesToArrayOfObject(history[n].raw.s))
        => /\ history[n].outcome = "ExtractionError"
           /\ [ts |-> history[n].turn, url |-> history[n].url, data |-> history[n].raw]
                  \in rawFiles
           /\ \A f \in resultFiles : f.ts # history[n].turn

\* a reply that is an object and not an array was refused for the first url, its
\* raw text is on file, no result is, and the loop is at the next input
C5_Witness ==
    /\ loopPc = "input"
    /\ Len(history) = 1
    /\ history[1].outcome = "ExtractionError"
    /\ history[1].raw # PyNone
    /\ safe_read_json(history[1].raw.s).t = "dict"
    /\ \E f \in rawFiles : f.url = history[1].url /\ f.data = history[1].raw
    /\ resultFiles = {}

\* C6: for a reply that holds a well-formed JSON array of one object, bare, inside
\* code fences (with or without a language label) or inside prose, the parsing
\* step (extract_json of va3, which strips fences and prose) returns as candidate
\* the object inside the array, unchanged.
C6_RecoversObjectInArray ==
    (parsePc = "va3" /\ inner # PyNone)
    => /\ parseOut.kind = "return"
       /\ parseOut.value.l[1] = inner

\* the same of extract_json of va2, which hands the reply to the decoder as it is
C6_Va2RecoversObjectInArray ==
    (parsePc = "va2" /\ inner # PyNone)
    => /\ parseOut.kind = "return"
       /\ parseOut.value.l[1] = inner

\* what does hold of va3: the candidate is recovered from every such reply but the
\* fenced one without a language label whose object holds "json", and the one
\* whose prose holds a bracket
C6_Va3RecoversUnlessJsonOrBracket ==
    (/\ parsePc = "va3"
     /\ inner # PyNone
     /\ ~(startswith(reply, Fence \o <<"\n">>) /\ contains(reply, <<"j", "s", "o", "n">>))
     /\ ~startswith(reply, <<"S", "e", "e", " ", "[">>))
    => /\ parseOut.kind = "return"
       /\ parseOut.value.l[1] = inner

\* ------------------------------------------------- claims about read_link

Sleeps(ev) == {i \in 1..Len(ev) : ev[i].op = "sleep"}
LastAttempt(ev) == CHOOSE i \in Attempts(ev) : \A j \in Attempts(ev) : j <= i
Ended == rlPc \in {"returned", "raised"}

\* C7: for an HTML-like url, read_link makes at most max_retries+1 HTML attempts,
\* makes none after a successful one, and sleeps exactly once between two
\* consecutive attempts and never after the last attempt.
C7_HtmlAttemptsAndBackoff ==
    (rlPc # "idle" /\ ~is_probable_pdf_url(url)) =>
        /\ \A i \in 1..Len(events) : events[i].op \in {"html", "sleep"}
        /\ NAttempts(events) <= max_retries + 1
        /\ \A i \in Attempts(events) :
             /\ events[i].ok => (i = Len(events) /\ rlPc = "returned")
             /\ i < Len(events) => events[i + 1].op = "sleep"
        /\ \A i \in Sleeps(events) :
             /\ i > 1 /\ events[i - 1].op = "html"
             /\ i < Len(events) => events[i + 1].op = "html"
             /\ i = Len(events) => (rlPc = "html" /\ attempt <= max_retries)
        /\ Ended => events[Len(events)].op = "html"

\* three failed HTML attempts with two sleeps between them, then the raise
C7_Witness ==
    /\ rlPc = "raised"
    /\ ~is_probable_pdf_url(url)
    /\ max_retries = 2
    /\ NAttempts(events) = 3
    /\ Cardinality(Sleeps(events)) = 2

\* the path of a url: what precedes the query string or fragment
UrlPath(u) ==
    LET cut == {i \in 1..Len(u) : u[i] \in {"?", "#"}}
    IN  IF cut = {} THEN u
        ELSE Slice(u, 0, (CHOOSE i \in cut : \A j \in cut : i <= j) - 1)

\* C8: when every HTML attempt for a url has failed and the url is PDF-like (its
\* path ends in .pdf, or it carries the PDF content-type hint), read_link has
\* attempted PDF extraction before it fails.
C8_HtmlFailureFallsBackToPdf ==
    ( /\ rlPc = "raised"
      /\ \E i \in Attempts(events) : events[i].op = "html"
      /\ \/ endswith(lower(UrlPath(url)), DotPdf)
         \/ contains(lower(url), PdfHint) )
    => \E i \in Attempts(events) : events[i].op = "pdf"

\* The two modes exclude each other in the code: no call attempts both.
C8_ModesExclusive ==
    ~ ( /\ \E i \in Attempts(events) : events[i].op = "html"
        /\ \E i \in Attempts(events) : events[i].op = "pdf" )

\* C9: read_link ends in one of two ways: it returns text that is non-empty after
\* stripping, or every attempt has failed and it raises an error that carries the
\* error of the last failed attempt.
C9_ReturnsTextOrRaisesLastError ==
    /\ rlPc \in {"idle", "html", "pdf", "pdf_staged", "returned", "raised"}
    /\ rlPc = "returned" =>
         /\ rlResult.t = "text"
         /\ rlResult.text.t = "str"
         /\ strip(rlResult.text.s) # <<>>
    /\ rlPc = "raised" =>
         /\ rlResult.t = "error"
         /\ NAttempts(events) = max_retries + 1
         /\ \A i \in Attempts(events) : ~events[i].ok
         /\ rlResult.carries = events[LastAttempt(events)].err
         /\ rlResult.carries.at = NAttempts(events)

\* a raise after several failures of different kinds, carrying the last one
C9_Witness ==
    /\ rlPc = "raised"
    /\ NAttempts(events) = 3
    /\ events[1].err.kind = "read_website"
    /\ rlResult.carries = Err("Empty body", 3)

\* C10: when read_link returns or raises, no temporary file staged by the call
\* remains (stated for the calls in which no os.remove itself has failed).
C10_NoStagedFileRemains ==
    (Ended /\ ~removeFailed) => tmpFiles = {}

\* ------------------------------------------- claims about run_with_warning

\* the caller has the outcome of call i
Returned(i) == calls[i].ret # NoOutcome

\* C11: if the wrapped call raises any exception, run_with_warning raises that same
\* exception to its caller, after the worker has ended; it never returns normally
\* for a call that raised.
C11_RaisedIsReRaised ==
    \A i \in DOMAIN calls :
        (calls[i].outcome.kind \in {"Exception", "BaseException"} /\ Returned(i))
        => /\ calls[i].ret = [kind |-> "raise", value |-> calls[i].outcome.value]
           /\ calls[i].tPc = "dead"

\* what holds: an exception of class Exception is raised again to the caller after
\* the worker has ended, and a BaseException outside Exception gives the return
\* value None
C11_ExceptionIsReRaised ==
    \A i \in DOMAIN calls :
        Returned(i)
        => /\ calls[i].tPc = "dead"
           /\ calls[i].outcome.kind = "Exception"
                => calls[i].ret = [kind |-> "raise", value |-> calls[i].outcome.value]
           /\ calls[i].outcome.kind = "BaseException"
                => calls[i].ret = [kind |-> "return", value |-> PyNone]

\* C12: if the wrapped call returns normally, run_with_warning returns exactly the
\* value the call returned, whatever the grace period, the interval and the steps
\* are and however many status lines were emitted.
C12_ReturnsTheValue ==
    \A i \in DOMAIN calls :
        (calls[i].outcome.kind = "return" /\ Returned(i))
        => calls[i].ret = [kind |-> "return", value |-> calls[i].outcome.value]

\* a call that returned "ok" after two status lines has given "ok" to its caller
C12_Witness ==
    \E i \in DOMAIN calls :
        /\ calls[i].outcome = [kind |-> "return", value |-> Str(<<"o", "k">>)]
        /\ calls[i].ret.kind = "return"
        /\ Len(calls[i].lines) >= 2

\* a heartbeat that has been started and has not ended
HbAlive(i) == calls[i].hbPc \notin {"unstarted", "dead"}

\* C13: while a heartbeat is alive, every writer that is inside a print (a status
\* line of a heartbeat, a line of the main loop) holds print_lock, so that two
\* writers are never inside a print at the same time.
C13_OutputUnderPrintLock ==
    (\E i \in DOMAIN calls : HbAlive(i))
    => /\ \A w \in writers : print_lock = {w}
       /\ Cardinality(writers) <= 1

\* what holds: the heartbeats, and the safe_print statements of main, write under
\* print_lock
C13_SafePrintUnderLock ==
    /\ \A i \in DOMAIN calls : Hb(i) \in writers => print_lock = {Hb(i)}
    /\ (Main \in writers /\ mainPc \in LockedPrints) => print_lock = {Main}

\* C14: no status line of a call is emitted after its worker has completed, and
\* none after run_with_warning has returned or raised to the caller.
C14_NoLineAfterCompletion ==
    \A i \in DOMAIN calls : \A n \in DOMAIN calls[i].lines :
        ~calls[i].lines[n].late /\ ~calls[i].lines[n].returned

\* what holds: at most one status line of a call is emitted after its worker has
\* completed
C14_AtMostOneLateLine ==
    \A i \in DOMAIN calls :
        Cardinality({n \in DOMAIN calls[i].lines : calls[i].lines[n].late}) <= 1

\* C15: a call that completes before the grace period (warning_after) has elapsed
\* has no status line emitted by its heartbeat, at any time.
C15_EarlyCompletionNoLines ==
    \A i \in DOMAIN calls :
        (calls[i].outcome # NoOutcome /\ calls[i].doneAt < calls[i].warning_after)
        => calls[i].lines = <<>>

\* a call completed before its grace period of one tick was over, and its heartbeat
\* has ended without a line
C15_Witness ==
    \E i \in DOMAIN calls :
        /\ calls[i].outcome # NoOutcome
        /\ calls[i].doneAt < calls[i].warning_after
        /\ calls[i].hbPc = "dead"
        /\ calls[i].lines = <<>>

\* C16: a call that is still running after the grace period plus one status
\* interval has at least one status line emitted before run_with_warning returns
\* the result of the worker.
C16_LongCallGetsALine ==
    \A i \in DOMAIN calls :
        (calls[i].ret.kind = "return"
           /\ calls[i].doneAt > calls[i].warning_after + calls[i].status_interval)
        => \E n \in DOMAIN calls[i].lines : ~calls[i].lines[n].returned

\* a call that ran longer than its grace period plus its interval has returned
C16_Witness ==
    \E i \in DOMAIN calls :
        /\ calls[i].ret.kind = "return"
        /\ calls[i].doneAt > calls[i].warning_after + calls[i].status_interval
        /\ calls[i].lines # <<>>

\* a line "[INFO] Still working, elapsed Ns. ..."
IsGeneric(line) == \E e \in 0..(MaxDuration + MaxStatusInterval) : line = StillWorking(e)

\* the lines ls are the first lines of: the steps, in order, then generic lines
StepsThenGeneric(ls, steps) ==
    \A n \in DOMAIN ls :
        IF n <= Len(steps) THEN ls[n].line = steps[n] ELSE IsGeneric(ls[n].line)

\* the list given as activity_steps (none when it is not given)
ConfiguredSteps(c) ==
    IF c.msgs.activity_steps = PyNone THEN <<>> ELSE c.msgs.activity_steps.l

\* the list the lines go through: activity_steps when it is not empty, else the one
\* message activity_msg, else warning_msg, else the built-in line
EffectiveSteps(c) ==
    IF ConfiguredSteps(c) # <<>> THEN ConfiguredSteps(c)
    ELSE IF c.msgs.activity_msg \notin {PyNone, Str(<<>>)} THEN <<c.msgs.activity_msg>>
    ELSE IF c.msgs.warning_msg \notin {PyNone, Str(<<>>)} THEN <<c.msgs.warning_msg>>
    ELSE <<Str(DefaultMsg)>>

C18_SlotWrittenOnceReadAfterJoin ==
    \A i \in DOMAIN calls :
        LET log == calls[i].slotLog
        IN  /\ Cardinality({n \in DOMAIN log : log[n].op = "write"}) <= 1
            /\ \A n \in DOMAIN log :
                 /\ log[n].by # Hb(i)
                 /\ log[n].op = "write" => log[n].by = <<"t", i>>
                 /\ log[n].op = "read" => (log[n].by = Main /\ ~log[n].alive)
                 /\ \A k \in DOMAIN log : (log[k].op = "write" /\ log[n].op = "read") => k < n

\* the worker has written the holder and the caller has read it
C18_Witness ==
    \E i \in DOMAIN calls :
        /\ \E n \in DOMAIN calls[i].slotLog : calls[i].slotLog[n].op = "write"
        /\ \E n \in DOMAIN calls[i].slotLog : calls[i].slotLog[n].op = "read"

\* C19: once the worker of a call has completed, the heartbeat of the call ends, by
\* itself: the caller does not join it and does not wait for it.
C19_HeartbeatEnds ==
    (calls # <<>> /\ calls[1].tPc = "dead") ~> (calls # <<>> /\ calls[1].hbPc = "dead")

\* the caller has the outcome of the call and is at its next prompt while the
\* heartbeat of the call is still asleep
C19_Witness ==
    /\ calls # <<>>
    /\ Returned(1)
    /\ mainPc = "wait"
    /\ calls[1].hbPc \in {"grace", "sleep"}

\* --------------------------------------------- claims about interactive_loop

\* C20: a failure while one url is processed (a fetch failure, an extraction or parse
\* failure, any other exception) ends the work on that url only: it is reported
\* and the loop is back at its prompt; the loop ends only on the input exit or
\* quit, or at the end of the input or an interrupt.
C20_FailureEndsOnlyThatUrl ==
    /\ loopPc # "crashed"
    /\ \A n \in DOMAIN history :
         history[n].outcome # "saved"
         => (n < Len(history) \/ loopPc \in {"input", "url", "fetched", "asked", "exited"})

\* what holds: the loop is left by an exception only out of the handler of
\* ExtractionError, when the console cannot show the reply
C20_LeftOnlyFromExtractionErrorHandler ==
    loopPc = "crashed"
    => /\ history[Len(history)].outcome = "ExtractionError"
       /\ ~Encodable(history[Len(history)].raw.s, console)

\* ------------------------------------------------ claims about what is saved

\* a dict as the function from its keys to their values
RecordOf(d) == [k \in DictKeys(d) |-> DictAt(d, k)]

\* the saved object cand is what sanitize_and_validate makes of the candidate cand
\* with the default schema and some page text
SavedAsSanitized(cand) ==
    \E page \in {PyNone, Str(<<>>), Str(Acme \o <<" ", "5">>)} :
        sanitize_and_validate(cand, TEMPLATE_DEFAULT[1], page)
            = RecordOf(cand.d)

\* C21: the only record ever written as the extraction result is a sanitized record:
\* in every entry point save_result is called with the output of the sanitization of
\* the candidate (here the entry point va3: the list it saves holds one object, the
\* sanitized candidate)
C21_OnlySanitizedIsSaved ==
    \A n \in DOMAIN parseResult :
        /\ Len(parseResult[n].l) = 1
        /\ SavedAsSanitized(parseResult[n].l[1])

\* C21, what holds: every result file interactive_loop of va2 writes holds
\* [cleaned], the sanitization of the candidate object of the reply of that turn
\* against the schema and the page text
C21_Va2SavesSanitized ==
    \A f \in resultFiles :
        \E n \in DOMAIN history :
            /\ history[n].turn = f.ts
            /\ history[n].outcome = "saved"
            /\ ~ShapeRejected(safe_read_json(history[n].raw.s))
            /\ f.data = <<sanitize_and_validate(safe_read_json(history[n].raw.s).l[1],
                                                TEMPLATE_DEFAULT[1],
                                                Str(Acme \o <<" ", "5">>))>>

\* ------------------------------------ claims about the sanitizer, continued

\* the value taken for the scalar field k fails the anchoring rule of the field: it
\* is not empty, the page text does not hold it, and (money fields) the page text
\* holds nothing MONEY_TOKEN_RE matches
FailsAnchoring(k) ==
    /\ ScalarText(TakenValue(k)) # <<>>
    /\ ~contains(OrEmpty(page_text), ScalarText(TakenValue(k)))
    /\ k \in MONEY_FIELDS => ~MONEY_TOKEN_RE_search(OrEmpty(page_text))

\* C22: sanitize_and_validate is total: for every candidate object whose values are
\* any JSON values and every page text (empty and None included) the call returns a
\* record, one value per key; a field that fails its anchoring rule is cleared to
\* the empty string and does not abort the call.
C22_ReturnsARecord ==
    Sanitized =>
        /\ DOMAIN clean = ALLOWED_KEYS
        /\ \A k \in ANCHORED_FIELDS \cup MONEY_FIELDS :
               FailsAnchoring(k) => clean[k] = NoText

\* no page text, a list of strings, None, objects, a number and a list as the value
\* of an anchored field: the field is cleared and the record is returned
C22_Witness ==
    /\ sanPc = "done"
    /\ page_text = PyNone
    /\ DictHas(result_obj.d, "managing_body")
    /\ DictAt(result_obj.d, "managing_body").t = "list"
    /\ Len(DictAt(result_obj.d, "managing_body").l) > 1
    /\ FailsAnchoring("managing_body")
    /\ DOMAIN clean = ALLOWED_KEYS
    /\ clean["managing_body"] = NoText

\* C23: date normalization is idempotent: _to_iso_dates_in_text applied to its own
\* output returns that output, for every text (texts with dates that do not exist,
\* which stay as they are, and texts with several dates included).
C23_DateNormalizationIdempotent ==
    helperPc = "twice" => helperOut[2] = helperOut[1]

\* the place of a contact entry in the list: emails, then phones, then urls
ContactRank(e) ==
    IF startswith(e, <<"e", "m", "a", "i", "l", ":", " ">>) THEN 1
    ELSE IF startswith(e, <<"p", "h", "o", "n", "e", ":", " ">>) THEN 2
    ELSE 3

\* C24: the contact list built from a page text holds no entry twice and has a fixed
\* order: the email entries ("email: <addr>") in sorted order, then the phone entries
\* ("phone: <match>") in sorted order, then the urls in sorted order; each match of
\* the page text has its entry, and another run on the same page text returns the
\* same list.
C24_ContactsSortedNoDuplicates ==
    Sanitized =>
        LET c == clean["contact_info"].l
            text == OrEmpty(page_text)
        IN  /\ \A i, j \in DOMAIN c :
                   i < j => \/ ContactRank(c[i].s) < ContactRank(c[j].s)
                            \/ /\ ContactRank(c[i].s) = ContactRank(c[j].s)
                               /\ StrLess(c[i].s, c[j].s)
            /\ {c[i].s : i \in DOMAIN c}
                 = {<<"e", "m", "a", "i", "l", ":", " ">> \o e : e \in Range(findall("EMAIL_RE", text))}
                   \cup {<<"p", "h", "o", "n", "e", ":", " ">> \o strip(ph) :
                            ph \in Range(findall("PHONE_RE", text))}
                   \cup Range(findall("URL_RE", text))
            /\ sanPc = "second" => c = prev_clean["contact_info"].l

\* the page with matches that repeat and are out of order gave, twice, the list
\* ["email: a@b.cd", "email: b@c.de", "phone: 1234567", "phone: 7654321",
\*  "http://a", "http://x"]
C24_Witness ==
    /\ sanPc = "second"
    /\ page_text = ContactsPage
    /\ clean["contact_info"]
         = StrList(<< <<"e", "m", "a", "i", "l", ":", " ", "a", "@", "b", ".", "c", "d">>,
                      <<"e", "m", "a", "i", "l", ":", " ", "b", "@", "c", ".", "d", "e">>,
                      <<"p", "h", "o", "n", "e", ":", " ", "1", "2", "3", "4", "5", "6", "7">>,
                      <<"p", "h", "o", "n", "e", ":", " ", "7", "6", "5", "4", "3", "2", "1">>,
                      <<"h", "t", "t", "p", ":", "/", "/", "a">>,
                      <<"h", "t", "t", "p", ":", "/", "/", "x">> >>)
    /\ prev_clean["contact_info"] = clean["contact_info"]

\* C25: a money value that is not empty is kept whenever the page text holds a
\* currency indicator token (a currency symbol such as the euro sign or the dollar
\* sign, or one of the words EUR, USD, euro, dollar in any letter case), also when
\* the page text does not hold the value itself.
C25_MoneyKeptWithCurrencyToken ==
    Sanitized =>
        \A k \in MONEY_FIELDS :
            (ScalarText(TakenValue(k)) # <<>> /\ HasCurrencyToken(OrEmpty(page_text)))
            => clean[k] = Str(ScalarText(TakenValue(k)))

\* C25, what holds: the value is kept when the page text holds the dollar sign or
\* one of the four words; the euro sign alone does not keep it
C25_MoneyKeptWithDollarOrWord ==
    Sanitized =>
        \A k \in MONEY_FIELDS :
            (/\ ScalarText(TakenValue(k)) # <<>>
             /\ \/ \E i \in DOMAIN OrEmpty(page_text) : OrEmpty(page_text)[i] = "$"
                \/ \E w \in MoneyTokenWords : contains(lower(OrEmpty(page_text)), w))
            => clean[k] = Str(ScalarText(TakenValue(k)))

\* the file exists, can be read, and holds one JSON value that is a list of exactly
\* one element, an object
HoldsListOfOneObject(file) ==
    /\ file.exists
    /\ file.readable
    /\ safe_read_json(file.text).t = "list"
    /\ Len(safe_read_json(file.text).l) = 1
    /\ safe_read_json(file.text).l[1].t = "dict"

\* C26: load_response_template returns the override schema only when the override
\* file exists, is readable, parses as JSON and its top-level value is a list
\* holding exactly one object; in every other case (absent, unreadable, malformed,
\* wrong shape) it returns the built-in default schema, and it never raises.
C26_OverrideOnlyForListOfOneObject ==
    helperPc = "loaded" =>
        helperOut[1] = IF HoldsListOfOneObject(helperIn)
                       THEN safe_read_json(helperIn.text).l
                       ELSE TEMPLATE_DEFAULT

\* C26, what holds: the override is returned when the file exists, is readable and
\* holds a JSON list that is not empty and whose first element is an object,
\* whatever follows that element; the built-in default in every other case
C26_OverrideWhenFirstElementIsObject ==
    helperPc = "loaded" =>
        helperOut[1] = IF /\ helperIn.exists
                          /\ helperIn.readable
                          /\ ~ShapeRejected(safe_read_json(helperIn.text))
                       THEN safe_read_json(helperIn.text).l
                       ELSE TEMPLATE_DEFAULT

\* ------------------------------------------ claims about read_link, continued

\* the modes of the extraction attempts a call has made, in order
ModesTried == [i \in DOMAIN SelectSeq(events, LAMBDA e : e.op \in {"html", "pdf"}) |->
                  SelectSeq(events, LAMBDA e : e.op \in {"html", "pdf"})[i].op]

\* C27: a url is classified PDF-like exactly when its path ends in .pdf (whatever
\* query string or fragment follows the path) or it holds the PDF content-type hint;
\* every other url is HTML-like, and read_link takes its first extraction mode from
\* this classification.
C27_PdfLikeByPathOrHint ==
    LET PdfLike == \/ endswith(lower(UrlPath(url)), DotPdf)
                   \/ contains(lower(url), PdfHint)
    IN  /\ rlPc = "html" => ~PdfLike
        /\ rlPc \in {"pdf", "pdf_staged"} => PdfLike
        /\ ModesTried # <<>> => (ModesTried[1] = "pdf" <=> PdfLike)

\* C27, what holds: the url as a whole, in lower case, ends in .pdf or holds the
\* hint exactly when the first (and every) attempt of read_link is a PDF attempt
C27_PdfLikeByWholeUrl ==
    LET PdfLike == \/ endswith(lower(url), DotPdf)
                   \/ contains(lower(url), PdfHint)
    IN  /\ rlPc = "html" => ~PdfLike
        /\ rlPc \in {"pdf", "pdf_staged"} => PdfLike
        /\ ModesTried # <<>> => (ModesTried[1] = "pdf" <=> PdfLike)

\* a Python str: a value tagged str that holds a sequence of characters
IsText(x) == x.t = "str" /\ \A n \in DOMAIN x.s : x.s[n] \in STRING

\* the list ["a, b", None, {"name": " N "}, {"x": 1, "a": "q"}, 3, ["n"], " "]
IsMixedList(v) ==
    /\ v.t = "list" /\ Len(v.l) = 7
    /\ v.l[1] = Str(<<"a", ",", " ", "b">>)
    /\ v.l[3].t = "dict" /\ v.l[4].t = "dict" /\ v.l[6].t = "list"

\* C28: every value of a sanitized record has the type of its kind of field: each
\* scalar field is a string, each array field is a flat list whose elements are all
\* strings that are not empty, whatever the shape of the candidate value (None, a
\* string, a number, a list that mixes strings, None, objects and lists, an object);
\* an object element becomes the first non-empty string under the sub-keys in their
\* order, else its primitive values joined by ", ": the list above gives
\* ["a, b", "N", "1, q", "3", "['n']"].
C28_ValuesHaveTheTypeOfTheirField ==
    Sanitized =>
        \A k \in DOMAIN clean :
            IF k \in ARRAY_FIELDS
            THEN /\ clean[k].t = "list"
                 /\ \A i \in DOMAIN clean[k].l :
                        IsText(clean[k].l[i]) /\ clean[k].l[i].s # <<>>
                 /\ (k # "contact_info" /\ IsMixedList(TakenValue(k)))
                    => clean[k] = StrList(<< <<"a", ",", " ", "b">>, <<"N">>,
                                             <<"1", ",", " ", "q">>, <<"3">>,
                                             <<"[", Apostrophe, "n", Apostrophe, "]">> >>)
            ELSE IsText(clean[k])

\* the mixed list was given for an array field and came out as five strings
C28_Witness ==
    /\ sanPc = "done"
    /\ DictHas(result_obj.d, "eligible_parties")
    /\ IsMixedList(DictAt(result_obj.d, "eligible_parties"))
    /\ Len(clean["eligible_parties"].l) = 5
    /\ clean["eligible_parties"].l[2] = Str(<<"N">>)
    /\ clean["eligible_parties"].l[3] = Str(<<"1", ",", " ", "q">>)

\* --------------------------------------------- claims about the chat loops

\* C29: in the chat loops the conversation history has, after any sequence of user
\* inputs, even length and alternates user, assistant, user, assistant: each turn
\* that is processed appends one user message (the input) and then one assistant
\* message (the response); in va1 also when the monitored search or model call
\* fails (the error text is the assistant message) and when a failed search falls
\* through to the plain model call.
C29_HistoryAlternates ==
    /\ \A n \in DOMAIN chatHistory :
           chatHistory[n].role = IF n % 2 = 1 THEN "user" ELSE "assistant"
    /\ Len(chatHistory) % 2 = IF chatPc = "append_assistant" THEN 1 ELSE 0
    /\ chatPc = "print" =>
           /\ chatHistory[Len(chatHistory) - 1] = Message("user", Str(chatInput))
           /\ chatHistory[Len(chatHistory)] = Message("assistant", chatResponse)
    /\ chatPc \in {"input", "exited", "crashed"} => Len(chatHistory) <= 2 * chatTurn

\* va1 after turns in which the model call failed and in which a search on a url
\* failed and the plain model call answered: two messages per turn
C29_Witness ==
    /\ chatProg = "va1_url_selector"
    /\ chatPc = "input"
    /\ Len(chatHistory) = 2 * chatTurn
    /\ \E n \in DOMAIN chatHistory : chatHistory[n] = Message("assistant", FailedResponse)
    /\ \E n \in DOMAIN chatHistory :
           /\ n % 2 = 1
           /\ HoldsUrl(chatHistory[n].content.s)
           /\ chatHistory[n + 1] = Message("assistant", Str(<<"a", "n", "s", "w", "e", "r">>))

\* --------------------------------------- claims about sanitizing a record again

\* C30: sanitization is idempotent: sanitize_and_validate applied to its own output
\* with the same schema and page text returns a record equal to that output (arrays
\* are not split or trimmed further, scalars are not encoded again, dates are not
\* rewritten again, no further field is cleared).
C30_SanitizationIdempotent ==
    sanPc = "again" => clean = prev_clean

\* C30, what holds: the second call returns the value of the first for every field
\* that is not a date field
C30_IdempotentOutsideDateFields ==
    sanPc = "again" =>
        /\ DOMAIN clean = DOMAIN prev_clean
        /\ \A k \in DOMAIN clean \ DATE_FIELDS : clean[k] = prev_clean[k]
====
